---- MODULE Spec2Model ----
(***************************************************************************)
(* Model of the Kobo highlights importer: the regenerate-and-reinsert      *)
(* document merge of ExtractHighlightsModal.writeBooks, the definition     *)
(* service (OllamaService), the default vocabulary template and the legacy *)
(* line-level merge (mergeHighlights).                                     *)
(*                                                                         *)
(* Text is a sequence of characters.  A character is a one-element TLA+    *)
(* string; the words the code only ever treats as a whole (the two marker  *)
(* words, "Quote", ":::" ...) are single characters of the model, so that  *)
(* String.includes("kobo-highlights-end") is membership of that character. *)
(***************************************************************************)
EXTENDS Integers, Sequences, FiniteSets, TLC

NL == "\n"
SP == " "
\* JavaScript white space (\s, String.trim) as far as the model's alphabet has it
WhiteSpace == {SP, NL}

EndToken == "kobo-highlights-end"
StartToken == "kobo-highlights-start"
TrailingKey == <<"__trailing__">>
Placeholder == <<"...">>

----------------------------------------------------------------------------
\* String primitives of JavaScript used by the code

RECURSIVE Concat(_)
\* concatenation of a sequence of texts
Concat(ss) ==
    IF Len(ss) = 0 THEN <<>>
    ELSE IF Len(ss) = 1 THEN ss[1]
    ELSE LET h == Len(ss) \div 2
         IN  Concat(SubSeq(ss, 1, h)) \o Concat(SubSeq(ss, h + 1, Len(ss)))

\* TLC evaluates the argument of an operator when it is first read; the
\* test reads v here, so that the state of a loop over many lines is
\* computed step by step and not left as a chain of pending applications
Evaluated(v) == v = v

\* the positions 1..n in order
Indices(n) == [i \in 1..n |-> i]

RECURSIVE SkipSpace(_, _, _)
\* the first position from i on, stepping by d, that holds no white space
SkipSpace(s, i, d) ==
    IF i < 1 \/ i > Len(s) THEN i
    ELSE IF s[i] \in WhiteSpace THEN SkipSpace(s, i + d, d)
    ELSE i

\* String.prototype.trim
Trim(s) ==
    LET lo == SkipSpace(s, 1, 1)
    IN  IF lo > Len(s) THEN <<>> ELSE SubSeq(s, lo, SkipSpace(s, Len(s), -1))

RECURSIVE LineEnd(_, _)
\* last position of the line that holds position p
LineEnd(s, p) ==
    IF p > Len(s) THEN Len(s)
    ELSE IF s[p] = NL THEN p - 1
    ELSE LineEnd(s, p + 1)

\* String.prototype.split('\n'): the texts between the line breaks, always
\* at least one line
Split(s) ==
    LET nl == SelectSeq(Indices(Len(s)), LAMBDA i : s[i] = NL)
    IN  [k \in 1..(Len(nl) + 1) |->
            SubSeq(s, IF k = 1 THEN 1 ELSE nl[k - 1] + 1,
                      IF k = Len(nl) + 1 THEN Len(s) ELSE nl[k] - 1)]

RECURSIVE Join(_)
\* Array.prototype.join('\n')
Join(lines) ==
    IF Len(lines) = 0 THEN <<>>
    ELSE IF Len(lines) = 1 THEN lines[1]
    ELSE LET h == Len(lines) \div 2
         IN  Join(SubSeq(lines, 1, h)) \o <<NL>> \o Join(SubSeq(lines, h + 1, Len(lines)))

\* String.prototype.includes(token), for a marker word
Includes(line, token) == \E i \in 1..Len(line) : line[i] = token

\* line.match(/^##\s+/)
IsHeading(line) ==
    /\ Len(line) >= 3
    /\ line[1] = "#"
    /\ line[2] = "#"
    /\ line[3] \in WhiteSpace

\* line.replace(/^##\s+/, '').trim()
HeadingName(line) ==
    IF IsHeading(line) THEN Trim(SubSeq(line, 3, Len(line))) ELSE Trim(line)

----------------------------------------------------------------------------
\* Maps (JavaScript Map) are functions; get of a missing key is undefined.

EmptyMap == << >>

\* Map.prototype.set: the new value replaces an older one
MapSet(m, k, v) == (k :> v) @@ m

Has(m, k) == k \in DOMAIN m

----------------------------------------------------------------------------
\* ExtractHighlightsModal.parseExistingDefinitions:
\*   /^-\s+(.+?)\s+:::\s+(.+)$/gm, executed repeatedly from lastIndex

\* last position of the run of white space that starts at p (p-1 if none)
WsRunEnd(s, p) == SkipSpace(s, p, 1) - 1

\* ^ with the m flag
AtLineStart(s, p) == p = 1 \/ s[p - 1] = NL

\* The splits <<a, b, c, d>> with which the pattern matches at p:
\* "-" at p, \s+ = p+1..a-1, (.+?) = a..b, \s+ = b+1..c-1, ":::" at c,
\* \s+ = c+1..d-1, (.+)$ = d..LineEnd(d)
MatchSplits(s, p) ==
    IF ~(p \in 1..Len(s) /\ s[p] = "-" /\ AtLineStart(s, p)) THEN {}
    ELSE UNION {
           UNION {
             LET c == WsRunEnd(s, b + 1) + 1
             IN  IF c >= b + 2 /\ c <= Len(s) /\ s[c] = ":::"
                 THEN {<<a, b, c, d>> : d \in {x \in (c + 2)..(WsRunEnd(s, c + 1) + 1) :
                                                  x <= Len(s) /\ s[x] # NL}}
                 ELSE {}
             : b \in a..LineEnd(s, a) }
           : a \in {x \in (p + 2)..(WsRunEnd(s, p + 1) + 1) : x <= Len(s) /\ s[x] # NL} }

\* The split the backtracking matcher finds first: the first \s+ greedy,
\* (.+?) lazy, the last \s+ greedy
FirstSplit(s, p) ==
    LET all == MatchSplits(s, p)
        Better(x, y) ==
            \/ x[1] > y[1]
            \/ x[1] = y[1] /\ x[2] < y[2]
            \/ x[1] = y[1] /\ x[2] = y[2] /\ x[4] >= y[4]
    IN  CHOOSE x \in all : \A y \in all : Better(x, y)

\* the first position from p on at which the pattern matches, 0 if none
NextMatch(s, p) ==
    LET found == SelectSeq(Indices(Len(s)),
                           LAMBDA i : i >= p /\ MatchSplits(s, i) # {})
    IN  IF found = <<>> THEN 0 ELSE found[1]

RECURSIVE ParseFrom(_, _, _)
\* while ((match = vocabularyRegex.exec(content)) !== null) ...
ParseFrom(s, from, definitions) ==
    LET p == NextMatch(s, from)
    IN  IF p = 0 THEN definitions
        ELSE LET sp == FirstSplit(s, p)
                 word == Trim(SubSeq(s, sp[1], sp[2]))
                 definition == Trim(SubSeq(s, sp[4], LineEnd(s, sp[4])))
             IN  ParseFrom(s, LineEnd(s, sp[4]) + 1,
                           MapSet(definitions, word, definition))

parseExistingDefinitions(content, definitions) == ParseFrom(content, 1, definitions)

----------------------------------------------------------------------------
\* ExtractHighlightsModal.extractUserContent

ExtractInit ==
    [userContent |-> EmptyMap, currentChapter |-> <<>>,
     afterAutoEnd |-> FALSE, userLines |-> <<>>]

\* ExtractLine without the test of afterAutoEnd at line 253
ExtractLine_IgnoresEndMarker(st, line) ==
    IF IsHeading(line) THEN
        [userContent |->
            IF st.currentChapter # <<>> /\ Len(st.userLines) > 0
               /\ Trim(Join(st.userLines)) # <<>>
            THEN MapSet(st.userContent, st.currentChapter, Trim(Join(st.userLines)))
            ELSE st.userContent,
         currentChapter |-> HeadingName(line),
         afterAutoEnd |-> FALSE,
         userLines |-> <<>>]
    ELSE IF Includes(line, EndToken) THEN [st EXCEPT !.afterAutoEnd = TRUE]
    ELSE IF Includes(line, StartToken) THEN [st EXCEPT !.afterAutoEnd = FALSE]
    ELSE IF st.currentChapter # <<>>
         THEN [st EXCEPT !.userLines = Append(@, line)]
    ELSE st

\* ExtractLine with the start marker opening the user content (line 248)
ExtractLine_StartOpensUserContent(st, line) ==
    IF IsHeading(line) THEN
        [userContent |->
            IF st.currentChapter # <<>> /\ Len(st.userLines) > 0
               /\ Trim(Join(st.userLines)) # <<>>
            THEN MapSet(st.userContent, st.currentChapter, Trim(Join(st.userLines)))
            ELSE st.userContent,
         currentChapter |-> HeadingName(line),
         afterAutoEnd |-> FALSE,
         userLines |-> <<>>]
    ELSE IF Includes(line, EndToken) THEN [st EXCEPT !.afterAutoEnd = TRUE]
    ELSE IF Includes(line, StartToken) THEN [st EXCEPT !.afterAutoEnd = TRUE]
    ELSE IF st.afterAutoEnd /\ st.currentChapter # <<>>
         THEN [st EXCEPT !.userLines = Append(@, line)]
    ELSE st

\* ExtractLine collecting the lines after an end marker also when no
\* heading has been seen (line 253 without the test of currentChapter)
ExtractLine_CollectsWithoutChapter(st, line) ==
    IF IsHeading(line) THEN
        [userContent |->
            IF st.currentChapter # <<>> /\ Len(st.userLines) > 0
               /\ Trim(Join(st.userLines)) # <<>>
            THEN MapSet(st.userContent, st.currentChapter, Trim(Join(st.userLines)))
            ELSE st.userContent,
         currentChapter |-> HeadingName(line),
         afterAutoEnd |-> FALSE,
         userLines |-> <<>>]
    ELSE IF Includes(line, EndToken) THEN [st EXCEPT !.afterAutoEnd = TRUE]
    ELSE IF Includes(line, StartToken) THEN [st EXCEPT !.afterAutoEnd = FALSE]
    ELSE IF st.afterAutoEnd
         THEN [st EXCEPT !.userLines = Append(@, line)]
    ELSE st

\* one iteration of the loop over the lines
ExtractLine(st, line) ==
    IF IsHeading(line) THEN
        [userContent |->
            IF st.currentChapter # <<>> /\ Len(st.userLines) > 0
               /\ Trim(Join(st.userLines)) # <<>>
            THEN MapSet(st.userContent, st.currentChapter, Trim(Join(st.userLines)))
            ELSE st.userContent,
         currentChapter |-> HeadingName(line),
         afterAutoEnd |-> FALSE,
         userLines |-> <<>>]
    ELSE IF Includes(line, EndToken) THEN [st EXCEPT !.afterAutoEnd = TRUE]
    ELSE IF Includes(line, StartToken) THEN [st EXCEPT !.afterAutoEnd = FALSE]
    ELSE IF st.afterAutoEnd /\ st.currentChapter # <<>>
         THEN [st EXCEPT !.userLines = Append(@, line)]
    ELSE st

RECURSIVE ExtractLoop(_, _)
\* for (const line of lines): the state after the lines, from state st
ExtractLoop(st, lines) ==
    IF Len(lines) = 0 THEN st
    ELSE IF Len(lines) = 1 THEN ExtractLine(st, lines[1])
    ELSE LET h == Len(lines) \div 2
             mid == ExtractLoop(st, SubSeq(lines, 1, h))
         IN  IF Evaluated(mid)
             THEN ExtractLoop(mid, SubSeq(lines, h + 1, Len(lines)))
             ELSE mid

extractUserContent(existingContent) ==
    LET st == ExtractLoop(ExtractInit, Split(existingContent))
        trimmed == Trim(Join(st.userLines))
    IN  IF Len(st.userLines) > 0 /\ trimmed # <<>>
        THEN IF st.currentChapter # <<>>
             THEN MapSet(st.userContent, st.currentChapter, trimmed)
             ELSE MapSet(st.userContent, TrailingKey, trimmed)
        ELSE st.userContent

----------------------------------------------------------------------------
\* ExtractHighlightsModal.reinsertUserContent

\* userContent.get(key), when it is truthy
Preserved(userContent, key) == Has(userContent, key) /\ userContent[key] # <<>>

\* ReinsertLine without result.push('') at line 296
ReinsertLine_NoBlankLine(st, line, userContent) ==
    LET chapter == IF IsHeading(line) THEN HeadingName(line) ELSE st.currentChapter
        pushed == Append(st.result, line)
    IN  [currentChapter |-> chapter,
         result |->
            IF Includes(line, EndToken) /\ chapter # <<>>
               /\ Preserved(userContent, chapter)
            THEN Append(pushed, userContent[chapter])
            ELSE pushed]

\* ReinsertLine with the preserved block put in the place of the marker line
ReinsertLine_ReplacesEndLine(st, line, userContent) ==
    LET chapter == IF IsHeading(line) THEN HeadingName(line) ELSE st.currentChapter
        pushed == Append(st.result, line)
    IN  [currentChapter |-> chapter,
         result |->
            IF Includes(line, EndToken) /\ chapter # <<>>
               /\ Preserved(userContent, chapter)
            THEN st.result \o << <<>>, userContent[chapter] >>
            ELSE pushed]

\* ReinsertLine putting the preserved block after the start-marker line too
ReinsertLine_AfterEveryMarker(st, line, userContent) ==
    LET chapter == IF IsHeading(line) THEN HeadingName(line) ELSE st.currentChapter
        pushed == Append(st.result, line)
    IN  [currentChapter |-> chapter,
         result |->
            IF (Includes(line, EndToken) \/ Includes(line, StartToken))
               /\ chapter # <<>> /\ Preserved(userContent, chapter)
            THEN pushed \o << <<>>, userContent[chapter] >>
            ELSE pushed]

\* one iteration of the loop over the lines of the render
ReinsertLine(st, line, userContent) ==
    LET chapter == IF IsHeading(line) THEN HeadingName(line) ELSE st.currentChapter
        pushed == Append(st.result, line)
    IN  [currentChapter |-> chapter,
         result |->
            IF Includes(line, EndToken) /\ chapter # <<>>
               /\ Preserved(userContent, chapter)
            THEN pushed \o << <<>>, userContent[chapter] >>
            ELSE pushed]

RECURSIVE ReinsertLoop(_, _, _)
\* for (const line of lines): the state after the lines, from state st
ReinsertLoop(st, lines, userContent) ==
    IF Len(lines) = 0 THEN st
    ELSE IF Len(lines) = 1 THEN ReinsertLine(st, lines[1], userContent)
    ELSE LET h == Len(lines) \div 2
             mid == ReinsertLoop(st, SubSeq(lines, 1, h), userContent)
         IN  IF Evaluated(mid)
             THEN ReinsertLoop(mid, SubSeq(lines, h + 1, Len(lines)), userContent)
             ELSE mid

\* reinsertUserContent that appends the blocks of the chapters it found no
\* heading for, instead of leaving them out
reinsertUserContent_AppendsUnplaced(generatedContent, userContent) ==
    LET st == ReinsertLoop([currentChapter |-> <<>>, result |-> <<>>],
                           Split(generatedContent), userContent)
        unplaced == {k \in DOMAIN userContent :
                        \A i \in DOMAIN Split(generatedContent) :
                            ~(IsHeading(Split(generatedContent)[i])
                              /\ HeadingName(Split(generatedContent)[i]) = k)}
    IN  Join(IF unplaced # {}
             THEN st.result \o << <<>>, userContent[CHOOSE k \in unplaced : TRUE] >>
             ELSE st.result)

reinsertUserContent(generatedContent, userContent) ==
    LET st == ReinsertLoop([currentChapter |-> <<>>, result |-> <<>>],
                           Split(generatedContent), userContent)
    IN  Join(IF Preserved(userContent, TrailingKey)
             THEN st.result \o << <<>>, userContent[TrailingKey] >>
             ELSE st.result)

\* writeBooks, lines 176-185: the content written for a book whose file exists
MergeContent(generatedContent, existingContent) ==
    LET userContent == extractUserContent(existingContent)
    IN  IF Cardinality(DOMAIN userContent) > 0 \/ Has(userContent, TrailingKey)
        THEN reinsertUserContent(generatedContent, userContent)
        ELSE generatedContent

----------------------------------------------------------------------------
\* template.ts: defaultTemplate rendered by applyTemplateTransformations.
\* A chapter map is a sequence of <<chapterName, highlights>> with distinct
\* names (Map entries in insertion order); a highlight is
\* [text, note, color], note = <<>> when the bookmark has none.

Vocab == 1
Quote == 0

HighlightText(h, definitions) ==
    (IF h.color = Vocab
     THEN <<"-", SP>> \o h.text \o <<SP, ":::", SP>>
          \o (IF Has(definitions, h.text) /\ definitions[h.text] # <<>>
              THEN definitions[h.text] ELSE Placeholder)
          \o <<NL>>
     ELSE <<">", SP, "Quote", SP, ":", SP>> \o h.text \o <<NL>>)
    \o <<NL>>
    \o (IF h.note # <<>> THEN <<"**Note:**", SP>> \o h.note \o <<NL, NL>> ELSE <<>>)

ChapterText(entry, definitions) ==
    <<"#", "#", SP>> \o Trim(entry[1]) \o <<NL, NL>>
    \o <<"%%", SP, StartToken, SP, "%%", NL>>
    \o Concat([i \in 1..Len(entry[2]) |-> HighlightText(entry[2][i], definitions)])
    \o <<"%%", SP, EndToken, SP, "%%", NL, NL>>

LanguageWord(language) == IF language = "fr" THEN "Vocabulaire" ELSE "Vocabulary"

\* eta.renderString(defaultTemplate, ...) when it gives a text
renderString(chapters, definitions, language) ==
    <<NL, "---", NL, "cards-deck:", SP, LanguageWord(language), NL, "---", NL, NL>>
    \o Concat([i \in 1..Len(chapters) |-> ChapterText(chapters[i], definitions)])
    \o <<NL>>

\* the text returned when eta.renderString gives null (line 182)
ErrorSentinel == <<"Error: Template rendering failed. Check console for details.">>

\* applyTemplateTransformations from the result of eta.renderString on:
\* isNull tells that the result is null, rendered is the text otherwise
Transformed(isNull, rendered) == IF isNull THEN ErrorSentinel ELSE Trim(rendered)

applyTemplateTransformations(chapters, definitions, language) ==
    Transformed(FALSE, renderString(chapters, definitions, language))

----------------------------------------------------------------------------
\* The earlier version of the plugin: its template and the line-level merge
\* of mergeHighlightsToExistingFile

\* the vocabulary line of the earlier version, up to the term
CardPrefix(text) == <<"-", SP, "[", SP, "]", SP, "**">> \o text \o <<"**">>

\* the lines 38-47 of the earlier template, for one highlight
legacyHighlightText(h) ==
    (IF h.color = Vocab
     THEN CardPrefix(h.text) \o <<SP, "::", SP, "...", SP, "#card", NL>>
     ELSE <<">", SP, "Quote", SP, ":", SP>> \o h.text \o <<NL>>)
    \o <<NL>>
    \o (IF h.note # <<>> THEN <<"**Note:**", SP>> \o h.note \o <<NL, NL>> ELSE <<>>)

legacyChapterText(entry) ==
    <<"#", "#", SP>> \o Trim(entry[1]) \o <<NL, NL>>
    \o Concat([i \in 1..Len(entry[2]) |-> legacyHighlightText(entry[2][i])])

\* the earlier defaultTemplate rendered for the book "T" by "A", the other
\* details unset, and trimmed
legacyTemplate(chapters) ==
    Trim(<<NL, "---", NL,
           "title:", SP, "\"", "T", "\"", NL,
           "author:", SP, "A", NL,
           "publisher:", SP, NL,
           "dateLastRead:", SP, NL,
           "readStatus:", SP, "Unknown", NL,
           "percentRead:", SP, NL,
           "isbn:", SP, NL,
           "series:", SP, NL,
           "seriesNumber:", SP, NL,
           "timeSpentReading:", SP, NL,
           "---", NL, NL,
           "#", SP, "T", NL, NL,
           "#", "#", SP, "Description", NL, NL,
           NL, NL,
           "#", "#", SP, "Highlights", NL, NL>>
         \o Concat([i \in 1..Len(chapters) |-> legacyChapterText(chapters[i])])
         \o <<NL>>)

\* line.match(/^##\s+Highlights\s*$/)
IsHighlightsHeading(line) ==
    IsHeading(line) /\ Trim(SubSeq(line, 3, Len(line))) = <<"Highlights">>

\* line.match(/^(##|#|\*Created:|\*\*Note:\*\*)/)
IsMetaLine(line) ==
    Len(line) >= 1 /\ line[1] \in {"#", "*Created:", "**Note:**"}

\* one iteration of the first loop of mergeHighlights (lines 225-255)
ParseLine(st, line) ==
    IF IsHighlightsHeading(line)
    THEN [st EXCEPT !.inHighlightsSection = TRUE, !.result = Append(@, line)]
    ELSE LET header == st.inHighlightsSection /\ IsHeading(line)
             chapter == IF header THEN HeadingName(line) ELSE st.currentChapter
             known == IF header /\ ~Has(st.existingHighlights, chapter)
                      THEN MapSet(st.existingHighlights, chapter, {})
                      ELSE st.existingHighlights
         IN  [inHighlightsSection |-> st.inHighlightsSection,
              currentChapter |-> chapter,
              existingHighlights |->
                  IF /\ st.inHighlightsSection
                     /\ chapter # <<>>
                     /\ Trim(line) # <<>>
                     /\ ~IsMetaLine(line)
                     /\ Has(known, chapter)
                  THEN [known EXCEPT ![chapter] = @ \cup {Trim(line)}]
                  ELSE known,
              result |-> Append(st.result, line)]

RECURSIVE ParseLoop(_, _)
ParseLoop(st, lines) ==
    IF Len(lines) = 0 THEN st
    ELSE IF Len(lines) = 1 THEN ParseLine(st, lines[1])
    ELSE LET h == Len(lines) \div 2
             mid == ParseLoop(st, SubSeq(lines, 1, h))
         IN  IF Evaluated(mid)
             THEN ParseLoop(mid, SubSeq(lines, h + 1, Len(lines)))
             ELSE mid

\* the lines pushed to newHighlightsToAdd for one highlight (lines 279-292)
NewHighlightLines(h, definitions) ==
    << IF h.color = Vocab
       THEN CardPrefix(h.text) \o <<SP, "::", SP>>
            \o (IF Has(definitions, h.text) /\ definitions[h.text] # <<>>
                THEN definitions[h.text] ELSE Placeholder)
            \o <<SP, "#card">>
       ELSE <<">", SP, "Quote", SP, ":", SP>> \o h.text,
       <<>> >>
    \o (IF h.note # <<>> THEN << <<"**Note:**", SP>> \o h.note, <<>> >> ELSE <<>>)

\* AddChapter putting the new lines in the place of the lines the chapter
\* has in the document, instead of after them
AddChapter_ReplacesSection(result, entry, existingHighlights, definitions) ==
    LET trimmedChapterName == Trim(entry[1])
        headers == SelectSeq(Indices(Len(result)),
                             LAMBDA i : /\ i > 1
                                        /\ IsHeading(result[i])
                                        /\ HeadingName(result[i]) = trimmedChapterName)
        newHighlightsToAdd ==
            Concat([j \in 1..Len(entry[2]) |-> NewHighlightLines(entry[2][j], definitions)])
        nextHeaders == SelectSeq(Indices(Len(result)),
                                 LAMBDA i : i > headers[1] /\ IsHeading(result[i]))
        insertIndex == IF nextHeaders = <<>> THEN Len(result) + 1 ELSE nextHeaders[1]
    IN  IF newHighlightsToAdd = <<>> THEN result
        ELSE IF headers # <<>>
             THEN SubSeq(result, 1, headers[1]) \o newHighlightsToAdd
                  \o SubSeq(result, insertIndex, Len(result))
             ELSE result \o << <<"#", "#", SP>> \o trimmedChapterName, <<>> >>
                  \o newHighlightsToAdd

\* one iteration of the second loop of mergeHighlights (lines 262-314)
AddChapter(result, entry, existingHighlights, definitions) ==
    LET trimmedChapterName == Trim(entry[1])
        chapterHighlights ==
            IF Has(existingHighlights, trimmedChapterName)
            THEN existingHighlights[trimmedChapterName] ELSE {}
        headers == SelectSeq(Indices(Len(result)),
                             LAMBDA i : /\ i > 1
                                        /\ IsHeading(result[i])
                                        /\ HeadingName(result[i]) = trimmedChapterName)
        newHighlightsToAdd ==
            Concat([j \in 1..Len(entry[2]) |->
                      IF entry[2][j].text \notin chapterHighlights
                      THEN NewHighlightLines(entry[2][j], definitions)
                      ELSE <<>>])
        nextHeaders == SelectSeq(Indices(Len(result)),
                                 LAMBDA i : i > headers[1] /\ IsHeading(result[i]))
        insertIndex == IF nextHeaders = <<>> THEN Len(result) + 1 ELSE nextHeaders[1]
    IN  IF newHighlightsToAdd = <<>> THEN result
        ELSE IF headers # <<>>
             THEN SubSeq(result, 1, insertIndex - 1) \o newHighlightsToAdd
                  \o SubSeq(result, insertIndex, Len(result))
             ELSE result \o << <<"#", "#", SP>> \o trimmedChapterName, <<>> >>
                  \o newHighlightsToAdd

RECURSIVE AddChapters(_, _, _, _)
AddChapters(result, newChapters, existingHighlights, definitions) ==
    IF newChapters = <<>> THEN result
    ELSE AddChapters(AddChapter(result, Head(newChapters), existingHighlights, definitions),
                     Tail(newChapters), existingHighlights, definitions)

\* mergeHighlights (lines 211-317)
mergeHighlights(existingContent, newChapters, definitions) ==
    LET st == ParseLoop([inHighlightsSection |-> FALSE, currentChapter |-> <<>>,
                         existingHighlights |-> EmptyMap, result |-> <<>>],
                        Split(existingContent))
        result == IF st.inHighlightsSection THEN st.result
                  ELSE st.result \o << <<>>, <<"#", "#", SP, "Highlights">>, <<>> >>
    IN  Join(AddChapters(result, newChapters, st.existingHighlights, definitions))

----------------------------------------------------------------------------
\* Bounded inputs

MaxChapters == 2
MaxHighlights == 2

Bookmark(text, note, color) == [text |-> text, note |-> note, color |-> color]

\* A quote, two vocabulary words, and a quote (with a note) of a passage
\* that itself holds the word of the end marker
Bookmarks ==
    {Bookmark(<<"a">>, <<>>, Quote),
     Bookmark(<<"a">>, <<>>, Vocab),
     Bookmark(<<"b">>, <<>>, Vocab),
     Bookmark(<<EndToken>>, <<"n">>, Quote)}

\* chapter titles are stored untrimmed and are distinct after trimming
ChapterNames == {<<"X">>, <<"Y", SP>>}

SeqsUpTo(S, n) == UNION {[1..k -> S] : k \in 0..n}

Injective(f) == \A i, j \in DOMAIN f : f[i] = f[j] => i = j

\* highlight lists in which no text repeats
HighlightLists ==
    {hs \in SeqsUpTo(Bookmarks, MaxHighlights) :
        Injective([i \in DOMAIN hs |-> hs[i].text])}

RECURSIVE SumLen(_)
SumLen(cs) == IF cs = <<>> THEN 0 ELSE Len(Head(cs)[2]) + SumLen(Tail(cs))

\* chapter maps with at most MaxChapters chapters and MaxHighlights highlights
ChapterMaps ==
    {cs \in SeqsUpTo(ChapterNames \X HighlightLists, MaxChapters) :
        /\ Injective([i \in DOMAIN cs |-> cs[i][1]])
        /\ SumLen(cs) <= MaxHighlights}

\* no chapter title, highlight text or note holds the word of the end marker
MarkerFree(cs) ==
    \A i \in DOMAIN cs :
        /\ ~Includes(cs[i][1], EndToken)
        /\ \A j \in DOMAIN cs[i][2] :
              /\ ~Includes(cs[i][2][j].text, EndToken)
              /\ ~Includes(cs[i][2][j].note, EndToken)

EndLine == <<"%%", SP, EndToken, SP, "%%">>

\* What a person types below a chapter's end marker: lines without heading
\* or marker, possibly indented, possibly with blank lines around
HumanBlocks ==
    {<< >>,
     << <<"h">> >>,
     << <<>>, <<"h">>, <<>>, <<"g">> >>,
     << <<SP, "h">>, <<>> >>}

\* the lines with blocks[k], blocks[k+1], ... put right after the first,
\* the second, ... end-marker line
InsertAfterEnds(lines, blocks, k) ==
    LET rank(i) == k - 1 + Len(SelectSeq(SubSeq(lines, 1, i), LAMBDA l : l = EndLine))
    IN  Concat([i \in 1..Len(lines) |->
                  IF lines[i] = EndLine /\ rank(i) <= Len(blocks)
                  THEN <<lines[i]>> \o blocks[rank(i)]
                  ELSE <<lines[i]>>])

\* a document written earlier from the chapter map old, then edited by hand
EditedDocument(old, blocks) ==
    Join(InsertAfterEnds(Split(applyTemplateTransformations(old, EmptyMap, "en")),
                         blocks, 1))

----------------------------------------------------------------------------
\* OllamaService

\* the seventeen characters of the class in lowerWord.match(/[...]/g),
\* named in ASCII
AccentChars ==
    {"a-grave", "a-circ", "a-uml", "ae", "c-cedil", "e-acute", "e-grave",
     "e-circ", "e-uml", "i-uml", "i-circ", "o-circ", "u-grave", "u-circ",
     "u-uml", "y-uml", "oe"}

\* String.prototype.toLowerCase, for the letters of the model's alphabet
ToLowerCase(c) == IF c = "E-acute" THEN "e-acute" ELSE c

\* word.toLowerCase().trim()
LowerWord(word) == Trim([j \in DOMAIN word |-> ToLowerCase(word[j])])

\* detectLanguage returning "fr" only above 30%
detectLanguage_Above30(words) ==
    LET counted == {i \in DOMAIN words : Len(LowerWord(words[i])) >= 3}
        wordsWithAccents ==
            Cardinality({i \in counted :
                \E j \in DOMAIN LowerWord(words[i]) : LowerWord(words[i])[j] \in AccentChars})
        totalWords == Cardinality(counted)
    IN  IF Len(words) = 0 \/ totalWords = 0 THEN "en"
        ELSE IF 10 * wordsWithAccents > 3 * totalWords THEN "fr" ELSE "en"

\* OllamaService.detectLanguage for a list of at most 50 words (no
\* sampling).  wordsWithAccents / totalWords >= 0.3 is decided on the
\* integers: the quotient of two integers up to 50 is rounded to the double
\* 0.3 exactly when it is 3/10
detectLanguage(words) ==
    LET counted == {i \in DOMAIN words : Len(LowerWord(words[i])) >= 3}
        wordsWithAccents ==
            Cardinality({i \in counted :
                \E j \in DOMAIN LowerWord(words[i]) : LowerWord(words[i])[j] \in AccentChars})
        totalWords == Cardinality(counted)
    IN  IF Len(words) = 0 \/ totalWords = 0 THEN "en"
        ELSE IF 10 * wordsWithAccents >= 3 * totalWords THEN "fr" ELSE "en"

\* What one request to the service can come to
Outcomes ==
    {[kind |-> "ok", response |-> <<"d">>],
     [kind |-> "ok", response |-> <<NL, "d", NL, "e", SP>>],
     [kind |-> "ok", response |-> <<SP>>],
     [kind |-> "malformed"],
     [kind |-> "notOk"],
     [kind |-> "networkError"]}

Fulfilled(value) == [state |-> "fulfilled", value |-> value]
Rejected == [state |-> "rejected", value |-> <<>>]

\* getVocabularyDefinition without its try/catch: the error of fetch or of
\* response.json() rejects the promise
getVocabularyDefinition_NoCatch(modelName, outcome) ==
    IF ~modelName THEN Fulfilled(Placeholder)
    ELSE IF outcome.kind = "networkError" THEN Rejected
    ELSE IF outcome.kind = "notOk" THEN Fulfilled(Placeholder)
    ELSE IF outcome.kind = "malformed" THEN Rejected
    ELSE IF Trim(outcome.response) = <<>> THEN Fulfilled(Placeholder)
    ELSE Fulfilled(Trim(outcome.response))

\* OllamaService.getVocabularyDefinition: how its promise settles.
\* networkError: fetch throws; notOk: !response.ok; malformed: response.json()
\* throws or data.response is no text; ok: data.response is the text
getVocabularyDefinition(modelName, outcome) ==
    IF ~modelName THEN Fulfilled(Placeholder)
    ELSE IF outcome.kind = "networkError" THEN Fulfilled(Placeholder)
    ELSE IF outcome.kind = "notOk" THEN Fulfilled(Placeholder)
    ELSE IF outcome.kind = "malformed" THEN Fulfilled(Placeholder)
    ELSE IF Trim(outcome.response) = <<>> THEN Fulfilled(Placeholder)
    ELSE Fulfilled(Trim(outcome.response))

RECURSIVE SetAll(_, _, _, _)
\* words.forEach((word, index) => definitions.set(word, results[index]))
SetAll(defs, words, res, i) ==
    IF i > Len(words) THEN defs
    ELSE SetAll(MapSet(defs, words[i], res[i]), words, res, i + 1)

\* the filter of line 129 keeping every word
SelectSeq2_KeepsAll(words, existing) == words

RECURSIVE SelectSeq2(_, _)
\* Array.prototype.filter(word => !existing.has(word))
SelectSeq2(words, existing) ==
    IF words = <<>> THEN <<>>
    ELSE IF Has(existing, Head(words)) THEN SelectSeq2(Tail(words), existing)
    ELSE <<Head(words)>> \o SelectSeq2(Tail(words), existing)

\* writeBooks, lines 100-113: the color-1 texts of the book, in order
RECURSIVE VocabularyOf(_)
VocabularyOf(hs) ==
    IF hs = <<>> THEN <<>>
    ELSE (IF Head(hs).color = Vocab THEN <<Head(hs).text>> ELSE <<>>) \o VocabularyOf(Tail(hs))

bookVocabularyWords(cs) == Concat([i \in DOMAIN cs |-> VocabularyOf(cs[i][2])])

----------------------------------------------------------------------------
\* Helpers of the properties

RECURSIVE IsSubsequence(_, _)
\* the lines of a occur in b in the same order
IsSubsequence(a, b) ==
    IF a = <<>> THEN TRUE
    ELSE IF b = <<>> THEN FALSE
    ELSE IF Head(a) = Head(b) THEN IsSubsequence(Tail(a), Tail(b))
    ELSE IsSubsequence(a, Tail(b))

\* the position in lines of the j-th end-marker line, counted from position
\* p; 0 if there is none
NthEndLine(lines, j, p) ==
    LET ends == SelectSeq(Indices(Len(lines)), LAMBDA i : i >= p /\ lines[i] = EndLine)
    IN  IF j <= Len(ends) THEN ends[j] ELSE 0

\* the lines that follow position p, at most n of them
LinesAfter(lines, p, n) ==
    SubSeq(lines, p + 1, IF p + n <= Len(lines) THEN p + n ELSE Len(lines))

RECURSIVE DropBlank(_)
DropBlank(ls) ==
    IF ls # <<>> /\ Trim(Head(ls)) = <<>> THEN DropBlank(Tail(ls)) ELSE ls

RECURSIVE DropBlankEnd(_)
DropBlankEnd(ls) ==
    IF ls # <<>> /\ Trim(ls[Len(ls)]) = <<>>
    THEN DropBlankEnd(SubSeq(ls, 1, Len(ls) - 1)) ELSE ls

\* a typed block without the blank lines around it
HumanText(block) == DropBlankEnd(DropBlank(block))

----------------------------------------------------------------------------
VARIABLES
    \* the merge as a function
    chapters,          \* the book's chapter map of this run
    oldChapters,       \* the chapter map the existing document was written from
    blocks,            \* what was typed below each chapter of the existing document
    merged,            \* the merge has run
    \* locals of writeBooks
    existingContent,   \* what vault.adapter.read(fileName) returned last
    generatedContent,  \* applyTemplateTransformations(...)
    finalContent       \* what is written

mergeVars ==
    <<chapters, oldChapters, blocks, merged, existingContent, generatedContent,
      finalContent>>

VARIABLES
    \* the plugin and its surroundings
    ollamaModel,       \* settings.ollamaModel is set
    content,           \* allBooksContent: sequence of [title, chapters]
    vault,             \* file name -> text, for the files that exist
    \* the run of the click handler
    pc,                \* where the run stands
    book,              \* index in content of the book in the loop
    fileExists,
    existingDefinitions,
    wordsNeedingDefinitions,
    detectedLanguage,
    pending,           \* indices of the requests not yet resolved
    results,           \* index -> the settled promise of the request
    answers,           \* index -> what the service did with the request
    definitions,
    \* history
    runs,              \* runs started
    edits,             \* edits made by hand
    lastEditRun,       \* value of runs at the last edit by hand, -1 if none
    requested,         \* terms sent to the service for the book in the loop
    ioLog,             \* storage calls of this run: <<operation, book>>
    lastWritten,       \* book -> <<run, text, definitions>> of its last write
    prevWritten,       \* book -> the same for the write before
    \* the modal
    fileBuffer,        \* this.fileBuffer is set
    modalOpen,         \* the modal is open
    notices,           \* the notices shown since the last click on Extract
    \* what went wrong in the run
    faults,            \* calls that have failed and renders that came back null
    failed,            \* the call that threw in this run: <<operation, book>>
    database,          \* the run has opened the database
    nullRendered       \* books of this run for which eta.renderString gave null

runVars ==
    <<pc, book, fileExists, existingDefinitions, wordsNeedingDefinitions,
      detectedLanguage, pending, results, answers, definitions>>
historyVars == <<runs, edits, lastEditRun, requested, ioLog, lastWritten, prevWritten>>
uiVars == <<fileBuffer, modalOpen, notices>>
faultVars == <<faults, failed, database, nullRendered>>
appVars == <<ollamaModel, content, vault, runVars, historyVars, uiVars, faultVars>>
mergeOnlyVars == <<chapters, oldChapters, blocks, merged>>
sharedVars == <<existingContent, generatedContent, finalContent>>

vars == <<mergeOnlyVars, sharedVars, appVars>>

----------------------------------------------------------------------------
\* The merge of writeBooks as a function of its two texts (lines 173-185)

\* no modal and nothing going wrong
UiUnused ==
    /\ fileBuffer = FALSE /\ modalOpen = FALSE /\ notices = <<>>
    /\ faults = 0 /\ failed = <<>> /\ database = FALSE /\ nullRendered = {}

AppUnused ==
    /\ UiUnused
    /\ ollamaModel = FALSE /\ content = <<>> /\ vault = EmptyMap
    /\ pc = "unused" /\ book = 0 /\ fileExists = FALSE
    /\ existingDefinitions = EmptyMap /\ wordsNeedingDefinitions = <<>>
    /\ detectedLanguage = "en" /\ pending = {} /\ results = EmptyMap
    /\ answers = EmptyMap
    /\ definitions = EmptyMap
    /\ runs = 0 /\ edits = 0 /\ lastEditRun = -1 /\ requested = {}
    /\ ioLog = <<>> /\ lastWritten = EmptyMap /\ prevWritten = EmptyMap

\* the chapter maps an existing document was written from: the one of this
\* run, or one with a chapter since dropped, reordered or changed
OldChapterMaps(cs) ==
    {cs,
     << <<<<"X">>, <<Bookmark(<<"b">>, <<>>, Vocab)>>>> >>,
     << <<<<"Y", SP>>, <<Bookmark(<<"a">>, <<>>, Quote)>>>>,
        <<<<"X">>, <<Bookmark(<<"a">>, <<>>, Vocab)>>>> >>,
     << <<<<"X">>, <<Bookmark(<<EndToken>>, <<"n">>, Quote)>>>> >>}

MergeInit ==
    /\ chapters \in ChapterMaps
    /\ oldChapters \in OldChapterMaps(chapters)
    /\ blocks \in [1..Len(oldChapters) -> HumanBlocks]
    /\ existingContent = EditedDocument(oldChapters, blocks)
    /\ generatedContent = applyTemplateTransformations(chapters, EmptyMap, "en")
    /\ finalContent = <<>>
    /\ merged = FALSE
    /\ AppUnused

Merge ==
    /\ ~merged
    /\ finalContent' = MergeContent(generatedContent, existingContent)
    /\ merged' = TRUE
    /\ UNCHANGED <<chapters, oldChapters, blocks, existingContent, generatedContent>>
    /\ UNCHANGED appVars

MergeNext == Merge

SpecMerge == MergeInit /\ [][MergeNext]_vars

----------------------------------------------------------------------------
\* The same merge over existing documents of any shape: what a vault can
\* hold under the book's file name need not come from an earlier run

MaxLines == 4

StartLine == <<"%%", SP, StartToken, SP, "%%">>

\* two level-2 headings, the two marker lines, typed lines (one indented),
\* a blank line, a typed heading that is indented (no match of /^##\s+/)
\* and a quote line holding the end word
DocLines ==
    {<<"#", "#", SP, "X">>,
     <<"#", "#", SP, "Y">>,
     StartLine,
     EndLine,
     <<"h">>,
     <<SP, "g">>,
     <<>>,
     <<SP, "#", "#", SP, "Z">>,
     <<">", SP, "Quote", SP, ":", SP, EndToken>>}

Documents == {Join(ls) : ls \in SeqsUpTo(DocLines, MaxLines)}

\* the chapter maps of the run: none, two chapters, and a chapter with a
\* quote that holds the end word
DocChapterMaps ==
    {<< >>,
     << <<<<"X">>, <<Bookmark(<<"a">>, <<>>, Quote)>>>>,
        <<<<"Y", SP>>, <<Bookmark(<<"b">>, <<>>, Vocab)>>>> >>,
     << <<<<"X">>, <<Bookmark(<<EndToken>>, <<"n">>, Quote)>>>> >>}

DocsInit ==
    /\ chapters \in DocChapterMaps
    /\ oldChapters = << >>
    /\ blocks = << >>
    /\ existingContent \in Documents
    /\ generatedContent = applyTemplateTransformations(chapters, EmptyMap, "en")
    /\ finalContent = <<>>
    /\ merged = FALSE
    /\ AppUnused

SpecDocs == DocsInit /\ [][MergeNext]_vars

----------------------------------------------------------------------------
\* The plugin: the click handler of onOpen, fetchHighlights and writeBooks

MaxRuns == 3
MaxEdits == 1

\* sanitize(bookTitle) of sanitize-filename-ts drops the characters a file
\* name cannot hold; the storage folder and ".md" are the same for all books
IllegalChars == {"?", ":", "/"}
FileName(title) == SelectSeq(title, LAMBDA c : c \notin IllegalChars)

Book(title, cs) == [title |-> title, chapters |-> cs]

VocabA == Bookmark(<<"a">>, <<>>, Vocab)
VocabB == Bookmark(<<"b">>, <<>>, Vocab)
QuoteA == Bookmark(<<"a">>, <<>>, Quote)
QuoteEnd == Bookmark(<<EndToken>>, <<"n">>, Quote)

\* the chapter maps the books of a run are drawn from
BookSources ==
    {<< <<<<"X">>, <<VocabA, VocabB>>>> >>,
     << <<<<"X">>, <<QuoteA>>>>, <<<<"Y", SP>>, <<VocabA>>>> >>,
     << <<<<"X">>, <<VocabA>>>>, <<<<"Y", SP>>, <<VocabA>>>> >>,
     << <<<<"X">>, <<QuoteEnd, VocabA>>>> >>,
     << >>}

Libraries ==
    {<<Book(<<"T">>, cs)>> : cs \in BookSources}
    \cup {<<Book(<<"T">>, << <<<<"X">>, <<VocabA>>>> >>),
           Book(<<"U">>, << <<<<"X">>, <<QuoteA>>>> >>)>>,
          \* two titles that sanitize to one file name
          <<Book(<<"T">>, << <<<<"X">>, <<VocabA>>>> >>),
            Book(<<"T", "?">>, << <<<<"X">>, <<VocabA, VocabB>>>> >>)>>}

\* what the service answers in a run of the plugin
RunOutcomes ==
    {[kind |-> "ok", response |-> <<"d">>],
     [kind |-> "ok", response |-> <<NL, "d", NL, "e", SP>>],
     [kind |-> "networkError"]}

MergeUnused ==
    /\ chapters = <<>> /\ oldChapters = <<>> /\ blocks = <<>> /\ merged = FALSE

Init ==
    /\ ollamaModel \in BOOLEAN
    /\ content \in Libraries
    /\ vault = EmptyMap
    /\ pc = "idle" /\ book = 0 /\ fileExists = FALSE
    /\ existingDefinitions = EmptyMap /\ wordsNeedingDefinitions = <<>>
    /\ detectedLanguage = "en" /\ pending = {} /\ results = EmptyMap
    /\ answers = EmptyMap
    /\ definitions = EmptyMap
    /\ existingContent = <<>> /\ generatedContent = <<>> /\ finalContent = <<>>
    /\ runs = 0 /\ edits = 0 /\ lastEditRun = -1 /\ requested = {}
    /\ ioLog = <<>> /\ lastWritten = EmptyMap /\ prevWritten = EmptyMap
    /\ fileBuffer = FALSE /\ modalOpen = TRUE /\ notices = <<>>
    /\ faults = 0 /\ failed = <<>> /\ database = FALSE /\ nullRendered = {}
    /\ MergeUnused

fileName == FileName(content[book].title)
Range(f) == {f[i] : i \in DOMAIN f}

\* the Extract button, enabled by the file that was loaded, is clicked: the
\* first notice, fetchHighlights opens the database and builds the library,
\* writeBooks enters its loop (lines 322-323, 29-69, 72-121); with no book
\* the loop is empty and the run ends at once (324-327)
Click ==
    /\ pc = "idle"
    /\ modalOpen /\ fileBuffer
    /\ runs < MaxRuns
    /\ runs' = runs + 1
    /\ ioLog' = <<>>
    /\ requested' = {}
    /\ failed' = <<>>
    /\ database' = TRUE
    /\ nullRendered' = {}
    /\ IF content = <<>>
       THEN /\ pc' = "idle" /\ book' = 0
            /\ notices' = <<"extracting", "success">>
            /\ modalOpen' = FALSE
       ELSE /\ pc' = "exists" /\ book' = 1
            /\ notices' = <<"extracting">>
            /\ modalOpen' = modalOpen
    /\ UNCHANGED <<ollamaModel, content, vault, fileExists, existingDefinitions,
                   wordsNeedingDefinitions, detectedLanguage, pending, results, answers,
                   definitions, sharedVars, edits, lastEditRun, lastWritten,
                   prevWritten, mergeOnlyVars, fileBuffer, faults>>

\* AfterCache calling getVocabularyDefinitions whether or not a model is
\* configured (line 150 without settings.ollamaModel)
AfterCache_AlwaysFetches(existing) ==
    LET words == bookVocabularyWords(content[book].chapters)
        needing == SelectSeq2(words, existing)
    IN  /\ existingDefinitions' = existing
        /\ wordsNeedingDefinitions' = needing
        /\ detectedLanguage' = IF Len(words) > 0 THEN detectLanguage(words) ELSE "en"
        /\ definitions' = existing
        /\ results' = EmptyMap
        /\ answers' = EmptyMap
        /\ IF Len(needing) > 0
           THEN /\ pending' = DOMAIN needing
                /\ requested' = Range(needing)
                /\ notices' = Append(notices, "fetching")
                /\ pc' = "fetch"
           ELSE /\ pending' = {}
                /\ requested' = {}
                /\ notices' = notices
                /\ pc' = "details"

\* AfterCache with the language detected from the words that have no
\* definition yet, as the earlier version of writeBooks did (part_000 127-134)
AfterCache_DetectsFromNew(existing) ==
    LET words == bookVocabularyWords(content[book].chapters)
        needing == SelectSeq2(words, existing)
    IN  /\ existingDefinitions' = existing
        /\ wordsNeedingDefinitions' = needing
        /\ detectedLanguage' = IF Len(needing) > 0 THEN detectLanguage(needing) ELSE "en"
        /\ definitions' = existing
        /\ results' = EmptyMap
        /\ answers' = EmptyMap
        /\ IF ollamaModel /\ Len(needing) > 0
           THEN /\ pending' = DOMAIN needing
                /\ requested' = Range(needing)
                /\ notices' = Append(notices, "fetching")
                /\ pc' = "fetch"
           ELSE /\ pending' = {}
                /\ requested' = {}
                /\ notices' = notices
                /\ pc' = "details"

\* writeBooks, lines 128-159, with the definitions read from the document:
\* up to the requests of getVocabularyDefinitions being sent
AfterCache(existing) ==
    LET words == bookVocabularyWords(content[book].chapters)
        needing == SelectSeq2(words, existing)
    IN  /\ existingDefinitions' = existing
        /\ wordsNeedingDefinitions' = needing
        /\ detectedLanguage' = IF Len(words) > 0 THEN detectLanguage(words) ELSE "en"
        /\ definitions' = existing
        /\ results' = EmptyMap
        /\ answers' = EmptyMap
        /\ IF ollamaModel /\ Len(needing) > 0
           THEN /\ pending' = DOMAIN needing
                /\ requested' = Range(needing)
                /\ notices' = Append(notices, "fetching")
                /\ pc' = "fetch"
           ELSE /\ pending' = {}
                /\ requested' = {}
                /\ notices' = notices
                /\ pc' = "details"

\* await vault.adapter.exists(fileName) returns (line 121)
ExistsReturns ==
    /\ pc = "exists"
    /\ fileExists' = (fileName \in DOMAIN vault)
    /\ ioLog' = Append(ioLog, <<"exists", book>>)
    /\ IF fileName \in DOMAIN vault
       THEN /\ pc' = "read"
            /\ UNCHANGED <<existingDefinitions, wordsNeedingDefinitions,
                           detectedLanguage, pending, results, answers, definitions,
                           requested, notices>>
       ELSE AfterCache(EmptyMap)
    /\ UNCHANGED <<ollamaModel, content, vault, book, sharedVars, runs, edits,
                   lastEditRun, lastWritten, prevWritten, mergeOnlyVars,
                   fileBuffer, modalOpen, faultVars>>

\* await vault.adapter.read(fileName) returns (line 123)
ReadReturns ==
    /\ pc = "read"
    /\ fileName \in DOMAIN vault
    /\ existingContent' = vault[fileName]
    /\ ioLog' = Append(ioLog, <<"read", book>>)
    /\ AfterCache(parseExistingDefinitions(vault[fileName], EmptyMap))
    /\ UNCHANGED <<ollamaModel, content, vault, book, fileExists, generatedContent,
                   finalContent, runs, edits, lastEditRun, lastWritten, prevWritten,
                   mergeOnlyVars, fileBuffer, modalOpen, faultVars>>

\* one request of getVocabularyDefinitions settles, the service having
\* done one of the things in outcomes
RespondWith(outcomes) ==
    /\ pc = "fetch"
    /\ \E i \in pending, o \in outcomes :
          /\ results' = (i :> getVocabularyDefinition(ollamaModel, o)) @@ results
          /\ answers' = (i :> o) @@ answers
          /\ pending' = pending \ {i}
    /\ UNCHANGED <<ollamaModel, content, vault, pc, book, fileExists,
                   existingDefinitions, wordsNeedingDefinitions, detectedLanguage,
                   definitions, sharedVars, historyVars, mergeOnlyVars, uiVars,
                   faultVars>>

\* the requests awaited one after the other, in the order of the words: a
\* request settles only when the ones before it have
Respond_InOrder ==
    /\ pc = "fetch"
    /\ \E i \in pending, o \in RunOutcomes :
          /\ \A j \in pending : i <= j
          /\ results' = (i :> getVocabularyDefinition(ollamaModel, o)) @@ results
          /\ answers' = (i :> o) @@ answers
          /\ pending' = pending \ {i}
    /\ UNCHANGED <<ollamaModel, content, vault, pc, book, fileExists,
                   existingDefinitions, wordsNeedingDefinitions, detectedLanguage,
                   definitions, sharedVars, historyVars, mergeOnlyVars, uiVars,
                   faultVars>>

Respond == RespondWith(RunOutcomes)

\* FetchReturns going on as soon as one request has settled (Promise.race
\* in the place of Promise.all), with what has come so far
FetchReturns_AfterFirst ==
    /\ pc = "fetch"
    /\ results # EmptyMap
    /\ pc' = "details"
    /\ definitions' =
          [w \in {wordsNeedingDefinitions[i] : i \in DOMAIN results} |->
              results[CHOOSE i \in DOMAIN results : wordsNeedingDefinitions[i] = w].value]
          @@ definitions
    /\ UNCHANGED <<ollamaModel, content, vault, book, fileExists, existingDefinitions,
                   wordsNeedingDefinitions, detectedLanguage, pending, results, answers,
                   sharedVars, historyVars, mergeOnlyVars, uiVars, faultVars>>

\* Promise.all settles: it rejects with the first promise that rejects and
\* resolves when all have; lines 128-136 of the service, 160-163 of writeBooks
FetchReturns ==
    /\ pc = "fetch"
    /\ (\A i \in DOMAIN results : results[i].state = "fulfilled") => pending = {}
    /\ IF \E i \in DOMAIN results : results[i].state = "rejected"
       THEN /\ pc' = "rejected"
            /\ definitions' = definitions
       ELSE /\ pc' = "details"
            /\ definitions' =
                  SetAll(EmptyMap, wordsNeedingDefinitions,
                         [i \in DOMAIN results |-> results[i].value], 1)
                  @@ definitions
    /\ UNCHANGED <<ollamaModel, content, vault, book, fileExists, existingDefinitions,
                   wordsNeedingDefinitions, detectedLanguage, pending, results, answers,
                   sharedVars, historyVars, mergeOnlyVars, uiVars, faultVars>>

\* DetailsReturns saving the render to the file before the merge
DetailsReturns_WritesDraft ==
    /\ pc = "details"
    /\ generatedContent' =
          applyTemplateTransformations(content[book].chapters, definitions,
                                       detectedLanguage)
    /\ finalContent' = generatedContent'
    /\ vault' = (fileName :> generatedContent') @@ vault
    /\ ioLog' = Append(ioLog, <<"write", book>>)
    /\ pc' = IF fileExists THEN "reread" ELSE "write"
    /\ UNCHANGED <<ollamaModel, content, book, fileExists, existingDefinitions,
                   wordsNeedingDefinitions, detectedLanguage, pending, results, answers,
                   definitions, existingContent, runs, edits, lastEditRun, requested,
                   lastWritten, prevWritten, mergeOnlyVars, uiVars, faultVars>>

\* await service.getBookDetailsFromBookTitle returns; the render (166-177)
DetailsReturns ==
    /\ pc = "details"
    /\ generatedContent' =
          applyTemplateTransformations(content[book].chapters, definitions,
                                       detectedLanguage)
    /\ finalContent' = generatedContent'
    /\ pc' = IF fileExists THEN "reread" ELSE "write"
    /\ UNCHANGED <<ollamaModel, content, vault, book, fileExists, existingDefinitions,
                   wordsNeedingDefinitions, detectedLanguage, pending, results, answers,
                   definitions, existingContent, historyVars, mergeOnlyVars, uiVars,
                   faultVars>>

\* RereadReturns without the second read: the user content is taken from
\* the text of the first read
RereadReturns_FirstRead ==
    /\ pc = "reread"
    /\ fileName \in DOMAIN vault
    /\ existingContent' = existingContent
    /\ finalContent' = MergeContent(generatedContent, existingContent)
    /\ ioLog' = Append(ioLog, <<"read", book>>)
    /\ pc' = "write"
    /\ UNCHANGED <<ollamaModel, content, vault, book, fileExists, existingDefinitions,
                   wordsNeedingDefinitions, detectedLanguage, pending, results, answers,
                   definitions, generatedContent, runs, edits, lastEditRun,
                   requested, lastWritten, prevWritten, mergeOnlyVars, uiVars,
                   faultVars>>

\* the second read returns; extraction and reinsertion (178-185)
RereadReturns ==
    /\ pc = "reread"
    /\ fileName \in DOMAIN vault
    /\ existingContent' = vault[fileName]
    /\ finalContent' = MergeContent(generatedContent, vault[fileName])
    /\ ioLog' = Append(ioLog, <<"read", book>>)
    /\ pc' = "write"
    /\ UNCHANGED <<ollamaModel, content, vault, book, fileExists, existingDefinitions,
                   wordsNeedingDefinitions, detectedLanguage, pending, results, answers,
                   definitions, generatedContent, runs, edits, lastEditRun,
                   requested, lastWritten, prevWritten, mergeOnlyVars, uiVars,
                   faultVars>>

\* await vault.adapter.write returns (187-190); the loop goes on, or the run
\* ends with the notice and the modal closes
WriteReturns ==
    /\ pc = "write"
    /\ vault' = (fileName :> finalContent) @@ vault
    /\ ioLog' = Append(ioLog, <<"write", book>>)
    /\ lastWritten' =
          (book :> [run |-> runs, text |-> finalContent, definitions |-> definitions])
          @@ lastWritten
    /\ prevWritten' =
          IF book \in DOMAIN lastWritten
          THEN (book :> lastWritten[book]) @@ prevWritten
          ELSE prevWritten
    /\ IF book < Len(content)
       THEN /\ pc' = "exists" /\ book' = book + 1
            /\ UNCHANGED <<notices, modalOpen>>
       ELSE /\ pc' = "idle" /\ book' = 0
            /\ notices' = Append(notices, "success")
            /\ modalOpen' = FALSE
    /\ UNCHANGED <<ollamaModel, content, fileExists, existingDefinitions,
                   wordsNeedingDefinitions, detectedLanguage, pending, results, answers,
                   definitions, sharedVars, runs, edits, lastEditRun, requested,
                   mergeOnlyVars, fileBuffer, faultVars>>

\* somebody types a block below the end marker of a chapter of a document
HumanEdit ==
    /\ edits < MaxEdits
    /\ \E f \in DOMAIN vault, j \in 1..MaxChapters, block \in HumanBlocks \ {<< >>} :
          /\ NthEndLine(Split(vault[f]), j, 1) > 0
          /\ vault' = [vault EXCEPT ![f] =
                Join(InsertAfterEnds(Split(vault[f]),
                                     [i \in 1..j |-> IF i = j THEN block ELSE << >>], 1))]
    /\ edits' = edits + 1
    /\ lastEditRun' = runs
    /\ UNCHANGED <<ollamaModel, content, runVars, sharedVars, runs, requested, ioLog,
                   lastWritten, prevWritten, mergeOnlyVars, uiVars, faultVars>>

\* the command opens the modal anew: the button is disabled and no file is
\* loaded (constructor and onOpen, lines 23-27 and 314-318)
Open ==
    /\ ~modalOpen
    /\ pc = "idle"
    /\ runs < MaxRuns
    /\ modalOpen' = TRUE
    /\ fileBuffer' = FALSE
    /\ UNCHANGED <<ollamaModel, content, vault, runVars, historyVars, sharedVars,
                   mergeOnlyVars, notices, faultVars>>

\* reader.onload: the file picked is in fileBuffer and the button is
\* enabled (lines 347-354)
ChooseFile ==
    /\ modalOpen
    /\ ~fileBuffer
    /\ pc = "idle"
    /\ fileBuffer' = TRUE
    /\ notices' = Append(notices, "ready")
    /\ UNCHANGED <<ollamaModel, content, vault, runVars, historyVars, sharedVars,
                   mergeOnlyVars, modalOpen, faultVars>>

Next ==
    \/ Open
    \/ ChooseFile
    \/ Click
    \/ ExistsReturns
    \/ ReadReturns
    \/ Respond
    \/ FetchReturns
    \/ DetailsReturns
    \/ RereadReturns
    \/ WriteReturns
    \/ HumanEdit

Spec == Init /\ [][Next]_vars

----------------------------------------------------------------------------
\* The plugin with a service whose answers can end in a line of one dash

\* data.response is any text: one line, two lines of which the second is
\* "-", or no answer at all
DashOutcomes ==
    {[kind |-> "ok", response |-> <<"d">>],
     [kind |-> "ok", response |-> <<"e">>],
     [kind |-> "ok", response |-> <<"d", NL, "-">>],
     [kind |-> "networkError"]}

DashLibraries == {<<Book(<<"T">>, << <<<<"X">>, <<VocabA, VocabB>>>> >>)>>}

DashInit ==
    /\ ollamaModel \in BOOLEAN
    /\ content \in DashLibraries
    /\ vault = EmptyMap
    /\ pc = "idle" /\ book = 0 /\ fileExists = FALSE
    /\ existingDefinitions = EmptyMap /\ wordsNeedingDefinitions = <<>>
    /\ detectedLanguage = "en" /\ pending = {} /\ results = EmptyMap
    /\ answers = EmptyMap
    /\ definitions = EmptyMap
    /\ existingContent = <<>> /\ generatedContent = <<>> /\ finalContent = <<>>
    /\ runs = 0 /\ edits = 0 /\ lastEditRun = -1 /\ requested = {}
    /\ ioLog = <<>> /\ lastWritten = EmptyMap /\ prevWritten = EmptyMap
    /\ fileBuffer = FALSE /\ modalOpen = TRUE /\ notices = <<>>
    /\ faults = 0 /\ failed = <<>> /\ database = FALSE /\ nullRendered = {}
    /\ MergeUnused

DashRespond == RespondWith(DashOutcomes)

DashNext ==
    \/ Open
    \/ ChooseFile
    \/ Click
    \/ ExistsReturns
    \/ ReadReturns
    \/ DashRespond
    \/ FetchReturns
    \/ DetailsReturns
    \/ RereadReturns
    \/ WriteReturns
    \/ HumanEdit

SpecDash == DashInit /\ [][DashNext]_vars

----------------------------------------------------------------------------
\* The plugin over books with French and English vocabulary

VocabEte == Bookmark(<<"e-acute", "t", "e-acute">>, <<>>, Vocab)
VocabCat == Bookmark(<<"c", "a", "t">>, <<>>, Vocab)
VocabDog == Bookmark(<<"d", "o", "g">>, <<>>, Vocab)
VocabSun == Bookmark(<<"s", "u", "n">>, <<>>, Vocab)

\* a book with one accented term; a book with one accented term of two and
\* a book without; a book with one accented term of four, in two chapters
AccentLibraries ==
    {<<Book(<<"T">>, << <<<<"X">>, <<VocabEte>>>> >>)>>,
     <<Book(<<"T">>, << <<<<"X">>, <<VocabEte, VocabCat>>>> >>),
       Book(<<"U">>, << <<<<"X">>, <<VocabCat, QuoteA>>>> >>)>>,
     <<Book(<<"T">>, << <<<<"X">>, <<VocabCat, VocabEte>>>>,
                        <<<<"Y">>, <<VocabDog, VocabSun>>>> >>)>>}

AccentInit ==
    /\ ollamaModel \in BOOLEAN
    /\ content \in AccentLibraries
    /\ vault = EmptyMap
    /\ pc = "idle" /\ book = 0 /\ fileExists = FALSE
    /\ existingDefinitions = EmptyMap /\ wordsNeedingDefinitions = <<>>
    /\ detectedLanguage = "en" /\ pending = {} /\ results = EmptyMap
    /\ answers = EmptyMap
    /\ definitions = EmptyMap
    /\ existingContent = <<>> /\ generatedContent = <<>> /\ finalContent = <<>>
    /\ runs = 0 /\ edits = 0 /\ lastEditRun = -1 /\ requested = {}
    /\ ioLog = <<>> /\ lastWritten = EmptyMap /\ prevWritten = EmptyMap
    /\ fileBuffer = FALSE /\ modalOpen = TRUE /\ notices = <<>>
    /\ faults = 0 /\ failed = <<>> /\ database = FALSE /\ nullRendered = {}
    /\ MergeUnused

SpecAccent == AccentInit /\ [][Next]_vars

----------------------------------------------------------------------------
\* The plugin over a vault that holds documents of earlier imports, for
\* libraries of two books

\* a document written by an earlier import with the definitions defs, then
\* edited by hand
EarlierDocument(cs, defs, typed) ==
    Join(InsertAfterEnds(Split(applyTemplateTransformations(cs, defs, "en")), typed, 1))

\* T.md: chapters X and Y, both terms defined, a line typed below Y;
\* U.md: chapter X, term b defined, a line typed below X
BookVault ==
    (<<"T">> :> EarlierDocument(<< <<<<"X">>, <<VocabA>>>>, <<<<"Y">>, <<VocabB>>>> >>,
                                (<<"a">> :> <<"d">>) @@ (<<"b">> :> <<"d">>),
                                << << >>, << <<"h">> >> >>))
    @@ (<<"U">> :> EarlierDocument(<< <<<<"X">>, <<VocabB>>>> >>,
                                   (<<"b">> :> <<"d">>),
                                   << << <<"h">> >> >>))

\* pairs of books with distinct titles: with their own documents, the
\* second without a document, and two titles that sanitize to one file name
BookLibraries ==
    {<<Book(<<"T">>, << <<<<"X">>, <<VocabA>>>> >>),
       Book(<<"U">>, << <<<<"X">>, <<VocabA, VocabB>>>> >>)>>,
     <<Book(<<"U">>, << <<<<"X">>, <<VocabB>>>> >>),
       Book(<<"T">>, << <<<<"X">>, <<VocabA>>>>, <<<<"Y">>, <<VocabB>>>> >>)>>,
     <<Book(<<"T">>, << <<<<"X">>, <<VocabA>>>> >>),
       Book(<<"V">>, << <<<<"X">>, <<VocabA>>>> >>)>>,
     <<Book(<<"T">>, << <<<<"X">>, <<VocabA>>>> >>),
       Book(<<"T", "?">>, << <<<<"Y">>, <<VocabB>>>> >>)>>,
     \* a book that has lost the chapter of its document and has a new term
     <<Book(<<"U">>, << <<<<"Y">>, <<VocabA>>>> >>),
       Book(<<"V">>, << <<<<"X">>, <<VocabA>>>> >>)>>}

BooksInit ==
    /\ ollamaModel \in BOOLEAN
    /\ content \in BookLibraries
    /\ vault = BookVault
    /\ pc = "idle" /\ book = 0 /\ fileExists = FALSE
    /\ existingDefinitions = EmptyMap /\ wordsNeedingDefinitions = <<>>
    /\ detectedLanguage = "en" /\ pending = {} /\ results = EmptyMap
    /\ answers = EmptyMap
    /\ definitions = EmptyMap
    /\ existingContent = <<>> /\ generatedContent = <<>> /\ finalContent = <<>>
    /\ runs = 0 /\ edits = 0 /\ lastEditRun = -1 /\ requested = {}
    /\ ioLog = <<>> /\ lastWritten = EmptyMap /\ prevWritten = EmptyMap
    /\ fileBuffer = FALSE /\ modalOpen = TRUE /\ notices = <<>>
    /\ faults = 0 /\ failed = <<>> /\ database = FALSE /\ nullRendered = {}
    /\ MergeUnused

SpecBooks == BooksInit /\ [][Next]_vars

----------------------------------------------------------------------------
\* The plugin with surroundings that can fail: a storage call or the
\* database can throw, the renderer can give null, and the listener of the
\* button can run with no file loaded (a click dispatched by a script
\* reaches it whatever the disabled flag)

MaxFaults == 1

\* three books with one file each, and two books with one file name
RunLibraries ==
    {<<Book(<<"T">>, << <<<<"X">>, <<VocabA>>>> >>),
       Book(<<"U">>, << <<<<"X">>, <<QuoteA>>>> >>),
       Book(<<"V">>, << <<<<"X">>, <<VocabB>>>> >>)>>,
     <<Book(<<"T">>, << <<<<"X">>, <<VocabA>>>> >>),
       Book(<<"T", "?">>, << <<<<"X">>, <<VocabA, VocabB>>>> >>)>>}

\* the vault at the start: empty, or with the document of the first book
\* written by an earlier import and a line typed below its end marker
RunVaults(library) ==
    {EmptyMap,
     (FileName(library[1].title)
        :> EditedDocument(library[1].chapters, << << <<"h">> >> >>))}

RunInit ==
    /\ ollamaModel \in BOOLEAN
    /\ content \in RunLibraries
    /\ vault \in RunVaults(content)
    /\ pc = "idle" /\ book = 0 /\ fileExists = FALSE
    /\ existingDefinitions = EmptyMap /\ wordsNeedingDefinitions = <<>>
    /\ detectedLanguage = "en" /\ pending = {} /\ results = EmptyMap
    /\ answers = EmptyMap
    /\ definitions = EmptyMap
    /\ existingContent = <<>> /\ generatedContent = <<>> /\ finalContent = <<>>
    /\ runs = 0 /\ edits = 0 /\ lastEditRun = -1 /\ requested = {}
    /\ ioLog = <<>> /\ lastWritten = EmptyMap /\ prevWritten = EmptyMap
    /\ fileBuffer = FALSE /\ modalOpen = TRUE /\ notices = <<>>
    /\ faults = 0 /\ failed = <<>> /\ database = FALSE /\ nullRendered = {}
    /\ MergeUnused

\* the listener without the test of line 30: the database is opened on no
\* buffer and the query throws
ClickUnloaded_OpensDatabase ==
    /\ pc = "idle"
    /\ modalOpen /\ ~fileBuffer
    /\ runs < MaxRuns
    /\ runs' = runs + 1
    /\ ioLog' = <<>>
    /\ requested' = {}
    /\ failed' = <<"database", 0>>
    /\ database' = TRUE
    /\ nullRendered' = {}
    /\ notices' = <<"extracting", "failure">>
    /\ UNCHANGED <<ollamaModel, content, vault, runVars, sharedVars, edits, lastEditRun,
                   lastWritten, prevWritten, mergeOnlyVars, fileBuffer, modalOpen,
                   faults>>

\* the listener runs with no file loaded: the first notice, fetchHighlights
\* throws at line 31, the catch shows the failure (322-323, 30-32, 328-333)
ClickUnloaded ==
    /\ pc = "idle"
    /\ modalOpen /\ ~fileBuffer
    /\ runs < MaxRuns
    /\ runs' = runs + 1
    /\ ioLog' = <<>>
    /\ requested' = {}
    /\ failed' = <<"fileBuffer", 0>>
    /\ database' = FALSE
    /\ nullRendered' = {}
    /\ notices' = <<"extracting", "failure">>
    /\ UNCHANGED <<ollamaModel, content, vault, runVars, sharedVars, edits, lastEditRun,
                   lastWritten, prevWritten, mergeOnlyVars, fileBuffer, modalOpen,
                   faults>>

\* the button is clicked and SqlJs, the database or its query throws (34-47)
DatabaseFails ==
    /\ pc = "idle"
    /\ modalOpen /\ fileBuffer
    /\ runs < MaxRuns
    /\ faults < MaxFaults
    /\ faults' = faults + 1
    /\ runs' = runs + 1
    /\ ioLog' = <<>>
    /\ requested' = {}
    /\ failed' = <<"database", 0>>
    /\ database' = TRUE
    /\ nullRendered' = {}
    /\ notices' = <<"extracting", "failure">>
    /\ UNCHANGED <<ollamaModel, content, vault, runVars, sharedVars, edits, lastEditRun,
                   lastWritten, prevWritten, mergeOnlyVars, fileBuffer, modalOpen>>

\* a storage call that throws with the error taken for a success: the
\* success notice is shown and the modal closes
StorageFails_ReportsSuccess(at, op) ==
    /\ pc = at
    /\ faults < MaxFaults
    /\ faults' = faults + 1
    /\ ioLog' = Append(ioLog, <<op, book>>)
    /\ failed' = <<op, book>>
    /\ notices' = Append(notices, "success")
    /\ modalOpen' = FALSE
    /\ pc' = "idle"
    /\ book' = 0
    /\ UNCHANGED <<ollamaModel, content, fileExists, existingDefinitions,
                   wordsNeedingDefinitions, detectedLanguage, pending, results, answers,
                   definitions, sharedVars, runs, edits, lastEditRun, requested,
                   lastWritten, prevWritten, mergeOnlyVars, fileBuffer,
                   database, nullRendered>>

\* a call of vault.adapter throws while the run stands at `at`: the error
\* leaves writeBooks and fetchHighlights and the catch of the listener
\* shows the failure (lines 121, 123, 178, 187 and 328-333)
StorageFails(at, op) ==
    /\ pc = at
    /\ faults < MaxFaults
    /\ faults' = faults + 1
    /\ ioLog' = Append(ioLog, <<op, book>>)
    /\ failed' = <<op, book>>
    /\ notices' = Append(notices, "failure")
    /\ pc' = "idle"
    /\ book' = 0
    /\ UNCHANGED <<ollamaModel, content, fileExists, existingDefinitions,
                   wordsNeedingDefinitions, detectedLanguage, pending, results, answers,
                   definitions, sharedVars, runs, edits, lastEditRun, requested,
                   lastWritten, prevWritten, mergeOnlyVars, fileBuffer, modalOpen,
                   database, nullRendered>>

ExistsFails == StorageFails("exists", "exists") /\ vault' = vault

ReadFails == StorageFails("read", "read") /\ vault' = vault

RereadFails == StorageFails("reread", "read") /\ vault' = vault

\* the write that throws has left the file as it was, or has left a part
\* of the new content in it
WriteFails ==
    /\ StorageFails("write", "write")
    /\ \E partly \in BOOLEAN :
          vault' = IF partly
                   THEN (fileName :> SubSeq(finalContent, 1, Len(finalContent) \div 2)) @@ vault
                   ELSE vault

\* the null of eta.renderString thrown as an error instead of being
\* replaced by the sentinel
DetailsReturnsNull_Throws ==
    /\ pc = "details"
    /\ faults < MaxFaults
    /\ faults' = faults + 1
    /\ nullRendered' = nullRendered \cup {book}
    /\ notices' = Append(notices, "failure")
    /\ pc' = "idle"
    /\ book' = 0
    /\ UNCHANGED <<ollamaModel, content, vault, fileExists, existingDefinitions,
                   wordsNeedingDefinitions, detectedLanguage, pending, results, answers,
                   definitions, sharedVars, historyVars, mergeOnlyVars,
                   fileBuffer, modalOpen, failed, database>>

\* getBookDetailsFromBookTitle returns and eta.renderString gives null: the
\* render is the sentinel (166-177, applyTemplateTransformations 176-183)
DetailsReturnsNull ==
    /\ pc = "details"
    /\ faults < MaxFaults
    /\ faults' = faults + 1
    /\ nullRendered' = nullRendered \cup {book}
    /\ generatedContent' = Transformed(TRUE, <<>>)
    /\ finalContent' = generatedContent'
    /\ pc' = IF fileExists THEN "reread" ELSE "write"
    /\ UNCHANGED <<ollamaModel, content, vault, book, fileExists, existingDefinitions,
                   wordsNeedingDefinitions, detectedLanguage, pending, results, answers,
                   definitions, existingContent, historyVars, mergeOnlyVars, uiVars,
                   failed, database>>

RunNext ==
    \/ Open
    \/ ChooseFile
    \/ Click
    \/ ClickUnloaded
    \/ DatabaseFails
    \/ ExistsReturns
    \/ ExistsFails
    \/ ReadReturns
    \/ ReadFails
    \/ Respond
    \/ FetchReturns
    \/ DetailsReturns
    \/ DetailsReturnsNull
    \/ RereadReturns
    \/ RereadFails
    \/ WriteReturns
    \/ WriteFails

SpecRun == RunInit /\ [][RunNext]_vars

Positions == {"idle", "exists", "read", "fetch", "details", "reread", "write"}

\* the requests of a book settle and getVocabularyDefinitions returns
\* (part_001 127, writeBooks 156)
Returns == Respond \/ FetchReturns

\* a storage call or the call for the book's details comes back, with its
\* value or by throwing: the run leaves the await it stood at (121, 123,
\* 166, 178, 187).  Stated by what it does to pc, so that whether it can
\* happen is decided without running the parser, the render or the merge
ComesBack ==
    /\ pc \in {"exists", "read", "details", "reread", "write"}
    /\ pc' \in Positions \ {pc}

\* every awaited call returns in the end
SpecRunLive ==
    RunInit /\ [][RunNext]_vars /\ WF_vars(Returns) /\ WF_pc(ComesBack)

----------------------------------------------------------------------------
\* The listener of the button run more than once at a time.  Nothing in
\* onOpen disables the button while fetchHighlights is awaited (319, 349 are
\* the only assignments of disabled) and the modal closes only after a run
\* has succeeded (328), so a click can come while an earlier one is still in
\* writeBooks.  Each click is its own invocation of the listener with its
\* own locals: in this specification pc, book, fileExists and the other
\* locals of writeBooks are functions of the invocation, the vault is shared

MaxClicks == 2

Invocations == 1..MaxClicks

ClickLibraries ==
    {<<Book(<<"T">>, << <<<<"X">>, <<VocabA>>>> >>),
       Book(<<"U">>, << <<<<"X">>, <<QuoteA>>>> >>)>>,
     <<Book(<<"T">>, << <<<<"X">>, <<VocabA, VocabB>>>> >>)>>}

ClicksInit ==
    /\ ollamaModel \in BOOLEAN
    /\ content \in ClickLibraries
    /\ vault \in RunVaults(content)
    /\ pc = [r \in Invocations |-> "idle"]
    /\ book = [r \in Invocations |-> 0]
    /\ fileExists = [r \in Invocations |-> FALSE]
    /\ existingDefinitions = [r \in Invocations |-> EmptyMap]
    /\ wordsNeedingDefinitions = [r \in Invocations |-> <<>>]
    /\ detectedLanguage = [r \in Invocations |-> "en"]
    /\ definitions = [r \in Invocations |-> EmptyMap]
    /\ existingContent = [r \in Invocations |-> <<>>]
    /\ generatedContent = [r \in Invocations |-> <<>>]
    /\ finalContent = [r \in Invocations |-> <<>>]
    /\ pending = {} /\ results = EmptyMap /\ answers = EmptyMap
    /\ runs = 0 /\ edits = 0 /\ lastEditRun = -1 /\ requested = {}
    /\ ioLog = <<>> /\ lastWritten = EmptyMap /\ prevWritten = EmptyMap
    /\ fileBuffer = TRUE /\ modalOpen = TRUE /\ notices = <<"ready">>
    /\ faults = 0 /\ failed = <<>> /\ database = FALSE /\ nullRendered = {}
    /\ MergeUnused

clickUnused ==
    <<ollamaModel, content, pending, results, answers, edits, lastEditRun, requested,
      prevWritten, fileBuffer, faultVars, mergeOnlyVars>>

fileNameIn(r) == FileName(content[book[r]].title)

\* a click on Extract: its invocation of the listener gets to the first
\* storage call of writeBooks (322-324, 29-69, 72-121)
ClickAgain ==
    /\ modalOpen /\ fileBuffer
    /\ runs < MaxClicks
    /\ runs' = runs + 1
    /\ pc' = [pc EXCEPT ![runs + 1] = "exists"]
    /\ book' = [book EXCEPT ![runs + 1] = 1]
    /\ notices' = Append(notices, "extracting")
    /\ UNCHANGED <<vault, fileExists, existingDefinitions, wordsNeedingDefinitions,
                   detectedLanguage, definitions, sharedVars, ioLog, lastWritten,
                   modalOpen, clickUnused>>

\* lines 128-159 in invocation r
AfterCacheIn(r, existing) ==
    LET words == bookVocabularyWords(content[book[r]].chapters)
        needing == SelectSeq2(words, existing)
    IN  /\ existingDefinitions' = [existingDefinitions EXCEPT ![r] = existing]
        /\ wordsNeedingDefinitions' = [wordsNeedingDefinitions EXCEPT ![r] = needing]
        /\ detectedLanguage' =
              [detectedLanguage EXCEPT
                  ![r] = IF Len(words) > 0 THEN detectLanguage(words) ELSE "en"]
        /\ definitions' = [definitions EXCEPT ![r] = existing]
        /\ IF ollamaModel /\ Len(needing) > 0
           THEN /\ notices' = Append(notices, "fetching")
                /\ pc' = [pc EXCEPT ![r] = "fetch"]
           ELSE /\ notices' = notices
                /\ pc' = [pc EXCEPT ![r] = "details"]

\* await vault.adapter.exists(fileName) returns in invocation r (121)
ExistsReturnsIn(r) ==
    /\ pc[r] = "exists"
    /\ fileExists' = [fileExists EXCEPT ![r] = fileNameIn(r) \in DOMAIN vault]
    /\ ioLog' = Append(ioLog, <<"exists", book[r], r>>)
    /\ IF fileNameIn(r) \in DOMAIN vault
       THEN /\ pc' = [pc EXCEPT ![r] = "read"]
            /\ UNCHANGED <<existingDefinitions, wordsNeedingDefinitions,
                           detectedLanguage, definitions, notices>>
       ELSE AfterCacheIn(r, EmptyMap)
    /\ UNCHANGED <<vault, book, sharedVars, runs, lastWritten, modalOpen, clickUnused>>

\* await vault.adapter.read(fileName) returns in invocation r (123)
ReadReturnsIn(r) ==
    /\ pc[r] = "read"
    /\ fileNameIn(r) \in DOMAIN vault
    /\ existingContent' = [existingContent EXCEPT ![r] = vault[fileNameIn(r)]]
    /\ ioLog' = Append(ioLog, <<"read", book[r], r>>)
    /\ AfterCacheIn(r, parseExistingDefinitions(vault[fileNameIn(r)], EmptyMap))
    /\ UNCHANGED <<vault, book, fileExists, generatedContent, finalContent, runs,
                   lastWritten, modalOpen, clickUnused>>

\* await ollamaService.getVocabularyDefinitions returns in invocation r, the
\* service having answered each request in some way (156-163)
FetchReturnsIn(r) ==
    /\ pc[r] = "fetch"
    /\ \E outs \in [DOMAIN wordsNeedingDefinitions[r] -> RunOutcomes] :
          definitions' =
              [definitions EXCEPT
                  ![r] = SetAll(EmptyMap, wordsNeedingDefinitions[r],
                                [i \in DOMAIN outs |->
                                    getVocabularyDefinition(ollamaModel, outs[i]).value], 1)
                         @@ definitions[r]]
    /\ pc' = [pc EXCEPT ![r] = "details"]
    /\ UNCHANGED <<vault, book, fileExists, existingDefinitions, wordsNeedingDefinitions,
                   detectedLanguage, sharedVars, runs, ioLog, lastWritten, notices,
                   modalOpen, clickUnused>>

\* await service.getBookDetailsFromBookTitle returns in invocation r; the
\* render (166-177)
DetailsReturnsIn(r) ==
    /\ pc[r] = "details"
    /\ generatedContent' =
          [generatedContent EXCEPT
              ![r] = applyTemplateTransformations(content[book[r]].chapters,
                                                  definitions[r], detectedLanguage[r])]
    /\ finalContent' = [finalContent EXCEPT ![r] = generatedContent'[r]]
    /\ pc' = [pc EXCEPT ![r] = IF fileExists[r] THEN "reread" ELSE "write"]
    /\ UNCHANGED <<vault, book, fileExists, existingDefinitions, wordsNeedingDefinitions,
                   detectedLanguage, definitions, existingContent, runs, ioLog,
                   lastWritten, notices, modalOpen, clickUnused>>

\* the second read returns in invocation r (178-185)
RereadReturnsIn(r) ==
    /\ pc[r] = "reread"
    /\ fileNameIn(r) \in DOMAIN vault
    /\ existingContent' = [existingContent EXCEPT ![r] = vault[fileNameIn(r)]]
    /\ finalContent' =
          [finalContent EXCEPT ![r] = MergeContent(generatedContent[r], vault[fileNameIn(r)])]
    /\ ioLog' = Append(ioLog, <<"read", book[r], r>>)
    /\ pc' = [pc EXCEPT ![r] = "write"]
    /\ UNCHANGED <<vault, book, fileExists, existingDefinitions, wordsNeedingDefinitions,
                   detectedLanguage, definitions, generatedContent, runs, lastWritten,
                   notices, modalOpen, clickUnused>>

\* await vault.adapter.write returns in invocation r (187-190): the loop
\* goes on, or the listener shows the notice and closes the modal (325-328)
WriteReturnsIn(r) ==
    /\ pc[r] = "write"
    /\ vault' = (fileNameIn(r) :> finalContent[r]) @@ vault
    /\ ioLog' = Append(ioLog, <<"write", book[r], r>>)
    /\ lastWritten' = (<<r, book[r]>> :> finalContent[r]) @@ lastWritten
    /\ IF book[r] < Len(content)
       THEN /\ pc' = [pc EXCEPT ![r] = "exists"]
            /\ book' = [book EXCEPT ![r] = book[r] + 1]
            /\ UNCHANGED <<notices, modalOpen>>
       ELSE /\ pc' = [pc EXCEPT ![r] = "done"]
            /\ book' = [book EXCEPT ![r] = 0]
            /\ notices' = Append(notices, "success")
            /\ modalOpen' = FALSE
    /\ UNCHANGED <<fileExists, existingDefinitions, wordsNeedingDefinitions,
                   detectedLanguage, definitions, sharedVars, runs, clickUnused>>

ClicksNext ==
    \/ ClickAgain
    \/ \E r \in Invocations : ExistsReturnsIn(r)
    \/ \E r \in Invocations : ReadReturnsIn(r)
    \/ \E r \in Invocations : FetchReturnsIn(r)
    \/ \E r \in Invocations : DetailsReturnsIn(r)
    \/ \E r \in Invocations : RereadReturnsIn(r)
    \/ \E r \in Invocations : WriteReturnsIn(r)

SpecClicks == ClicksInit /\ [][ClicksNext]_vars

----------------------------------------------------------------------------
\* OllamaService.getVocabularyDefinitions on its own: one call with a list
\* of words, the requests settling in any order

MaxWords == 3

\* the lists of words of a call; a word can stand twice in a list
WordLists == SeqsUpTo({<<"a">>, <<"b">>}, MaxWords)

FetchInit ==
    /\ ollamaModel \in BOOLEAN
    /\ wordsNeedingDefinitions \in WordLists
    /\ pending = DOMAIN wordsNeedingDefinitions
    /\ results = EmptyMap
    /\ answers = EmptyMap
    /\ definitions = EmptyMap
    /\ pc = "fetch"
    /\ content = <<>> /\ vault = EmptyMap /\ book = 0 /\ fileExists = FALSE
    /\ existingDefinitions = EmptyMap /\ detectedLanguage = "en"
    /\ existingContent = <<>> /\ generatedContent = <<>> /\ finalContent = <<>>
    /\ runs = 0 /\ edits = 0 /\ lastEditRun = -1 /\ requested = {}
    /\ ioLog = <<>> /\ lastWritten = EmptyMap /\ prevWritten = EmptyMap
    /\ UiUnused
    /\ MergeUnused

FetchRespond == RespondWith(Outcomes)

FetchNext ==
    \/ FetchRespond
    \/ FetchReturns

SpecFetch == FetchInit /\ [][FetchNext]_vars

----------------------------------------------------------------------------
\* Language detection over the vocabulary of one book (writeBooks, lines
\* 99-141)

MaxTerms == 3
MaxPlainTerms == 7

\* terms of two and of three letters, without and with an accented letter,
\* one with a capital accented letter, and terms with white space around
LangWords ==
    {<<"a", "b">>,
     <<"a", "b", "c">>,
     <<"e-acute", "b">>,
     <<"a", "e-acute", "c">>,
     <<"E-acute", "b", "c">>,
     <<"e-acute", "b", SP>>,
     <<SP, "a", "b", "c", SP>>}

\* any list of at most MaxTerms terms after at most MaxPlainTerms plain ones
TermLists ==
    {[i \in 1..k |-> <<"a", "b", "c">>] \o ws :
        k \in 0..MaxPlainTerms, ws \in SeqsUpTo(LangWords, MaxTerms)}

LangInit ==
    /\ \E ws \in TermLists :
          chapters = IF ws = <<>> THEN <<>>
                     ELSE << <<<<"X">>, [i \in DOMAIN ws |-> Bookmark(ws[i], <<>>, Vocab)]>> >>
    /\ oldChapters = << >> /\ blocks = << >> /\ merged = FALSE
    /\ existingContent = <<>> /\ generatedContent = <<>> /\ finalContent = <<>>
    /\ ollamaModel = FALSE /\ content = <<>> /\ vault = EmptyMap
    /\ pc = "collect" /\ book = 0 /\ fileExists = FALSE
    /\ existingDefinitions = EmptyMap /\ wordsNeedingDefinitions = <<>>
    /\ detectedLanguage = "en" /\ pending = {} /\ results = EmptyMap
    /\ answers = EmptyMap /\ definitions = EmptyMap
    /\ runs = 0 /\ edits = 0 /\ lastEditRun = -1 /\ requested = {}
    /\ ioLog = <<>> /\ lastWritten = EmptyMap /\ prevWritten = EmptyMap
    /\ UiUnused

\* detectedLanguage = OllamaService.detectLanguage(bookVocabularyWords)
DetectLanguage ==
    /\ pc = "collect"
    /\ detectedLanguage' = detectLanguage(bookVocabularyWords(chapters))
    /\ pc' = "detected"
    /\ UNCHANGED <<mergeOnlyVars, sharedVars, ollamaModel, content, vault, historyVars,
                   uiVars, faultVars>>
    /\ UNCHANGED <<book, fileExists, existingDefinitions, wordsNeedingDefinitions,
                   pending, results, answers, definitions>>

LangNext == DetectLanguage

SpecLang == LangInit /\ [][LangNext]_vars

----------------------------------------------------------------------------
\* parseExistingDefinitions on its own, over documents of any shape
\* (writeBooks, lines 120-124)

MaxParseLines == 3

\* a definition line, one with more white space, a line that is a lone
\* hyphen, a hyphen and a term, a term and a definition without hyphen, the
\* separator and a definition, a definition line cut after the separator, a
\* lone word, a definition line that does not start its line, a blank line
ParseLines ==
    {<<"-", SP, "a", SP, ":::", SP, "d">>,
     <<"-", SP, SP, "b", SP, SP, ":::", SP, "e", SP>>,
     <<"-">>,
     <<"-", SP, "a">>,
     <<"a", SP, ":::", SP, "d">>,
     <<":::", SP, "d">>,
     <<"-", SP, "a", SP, ":::">>,
     <<"e">>,
     <<"x", "-", SP, "a", SP, ":::", SP, "d">>,
     <<>>}

ParseDocuments == {Join(ls) : ls \in SeqsUpTo(ParseLines, MaxParseLines)}

ParseInit ==
    /\ existingContent \in ParseDocuments
    /\ existingDefinitions = EmptyMap
    /\ pc = "exists" /\ fileExists = TRUE
    /\ chapters = <<>> /\ oldChapters = <<>> /\ blocks = <<>> /\ merged = FALSE
    /\ generatedContent = <<>> /\ finalContent = <<>>
    /\ ollamaModel = FALSE /\ content = <<>> /\ vault = EmptyMap
    /\ book = 0 /\ wordsNeedingDefinitions = <<>>
    /\ detectedLanguage = "en" /\ pending = {} /\ results = EmptyMap
    /\ answers = EmptyMap /\ definitions = EmptyMap
    /\ runs = 0 /\ edits = 0 /\ lastEditRun = -1 /\ requested = {}
    /\ ioLog = <<>> /\ lastWritten = EmptyMap /\ prevWritten = EmptyMap
    /\ UiUnused

\* this.parseExistingDefinitions(existingContent, existingDefinitions)
ParseExisting ==
    /\ pc = "exists"
    /\ existingDefinitions' = parseExistingDefinitions(existingContent, EmptyMap)
    /\ pc' = "parsed"
    /\ UNCHANGED <<mergeOnlyVars, sharedVars, ollamaModel, content, vault, book,
                   fileExists, wordsNeedingDefinitions, detectedLanguage, pending,
                   results, answers, definitions, historyVars, uiVars, faultVars>>

ParseNext == ParseExisting

SpecParse == ParseInit /\ [][ParseNext]_vars

----------------------------------------------------------------------------
\* The earlier version of the plugin as a state machine

\* the documents the earlier version finds: written by its own template or
\* by the vocabulary template, from the chapter map of the run
LegacyInit ==
    /\ chapters \in {cs \in ChapterMaps : cs # <<>>}
    /\ oldChapters = chapters
    /\ definitions \in {EmptyMap, (<<"a">> :> <<"d">>)}
    /\ vault \in {(<<"T">> :> legacyTemplate(chapters)),
                  (<<"T">> :> applyTemplateTransformations(chapters, definitions, "en"))}
    /\ pc = "legacy"
    /\ runs = 0
    /\ existingContent = <<>> /\ generatedContent = <<>> /\ finalContent = <<>>
    /\ blocks = <<>> /\ merged = FALSE
    /\ ollamaModel = FALSE /\ content = <<>> /\ book = 0 /\ fileExists = TRUE
    /\ existingDefinitions = EmptyMap /\ wordsNeedingDefinitions = <<>>
    /\ detectedLanguage = "en" /\ pending = {} /\ results = EmptyMap
    /\ answers = EmptyMap
    /\ edits = 0 /\ lastEditRun = -1 /\ requested = {}
    /\ ioLog = <<>> /\ lastWritten = EmptyMap /\ prevWritten = EmptyMap
    /\ UiUnused

\* mergeHighlightsToExistingFile (lines 193-209): read, merge, write
mergeHighlightsToExistingFile ==
    /\ pc = "legacy"
    /\ runs < MaxRuns
    /\ runs' = runs + 1
    /\ existingContent' = vault[<<"T">>]
    /\ finalContent' = mergeHighlights(vault[<<"T">>], chapters, definitions)
    /\ vault' = (<<"T">> :> finalContent')
    /\ UNCHANGED <<chapters, oldChapters, blocks, merged, generatedContent,
                   ollamaModel, content, runVars, edits, lastEditRun, requested,
                   ioLog, lastWritten, prevWritten, uiVars, faultVars>>

LegacyNext == mergeHighlightsToExistingFile

SpecLegacy == LegacyInit /\ [][LegacyNext]_vars

----------------------------------------------------------------------------
\* mergeHighlights over existing documents of any shape

\* the heading of the highlights section, two chapter headings, a title, a
\* quote of the source, a card of the source, a typed line, a note line and
\* a blank line
LegacyLines ==
    {<<"#", "#", SP, "Highlights">>,
     <<"#", "#", SP, "X">>,
     <<"#", "#", SP, "Y">>,
     <<"#", SP, "T">>,
     <<">", SP, "Quote", SP, ":", SP, "a">>,
     <<"h">>,
     <<"**Note:**", SP, "n">>,
     <<>>}

LegacyDocuments == {Join(ls) : ls \in SeqsUpTo(LegacyLines, MaxLines)}

\* the chapter maps merged in: none, two chapters, and a chapter with a
\* quote that has a note
LegacyChapterMaps ==
    {<< >>,
     << <<<<"X">>, <<Bookmark(<<"a">>, <<>>, Quote)>>>>,
        <<<<"Y", SP>>, <<Bookmark(<<"b">>, <<>>, Vocab)>>>> >>,
     << <<<<"X">>, <<Bookmark(<<"b">>, <<"n">>, Quote)>>>> >>}

LegacyDocsInit ==
    /\ chapters \in LegacyChapterMaps
    /\ oldChapters = << >>
    /\ blocks = << >>
    /\ existingContent \in LegacyDocuments
    /\ generatedContent = <<>>
    /\ finalContent = <<>>
    /\ merged = FALSE
    /\ AppUnused

\* const mergedContent = this.mergeHighlights(existingContent, ...)
MergeLegacy ==
    /\ ~merged
    /\ finalContent' = mergeHighlights(existingContent, chapters, definitions)
    /\ merged' = TRUE
    /\ UNCHANGED <<chapters, oldChapters, blocks, existingContent, generatedContent>>
    /\ UNCHANGED appVars

LegacyDocsNext == MergeLegacy

SpecLegacyDocs == LegacyDocsInit /\ [][LegacyDocsNext]_vars

----------------------------------------------------------------------------
\* Properties of the merge

\* chapter i of the existing document has typed text below its end marker,
\* its generated part holds no second marker word, and chapter j of the
\* fresh render is the same chapter
Preservable(i, j) ==
    /\ i \in DOMAIN oldChapters
    /\ j \in DOMAIN chapters
    /\ Trim(oldChapters[i][1]) = Trim(chapters[j][1])
    /\ HumanText(blocks[i]) # <<>>
    /\ MarkerFree(<<oldChapters[i]>>)

C10_GeneratedLinesKept ==
    merged => IsSubsequence(Split(generatedContent), Split(finalContent))

C10_Witness ==
    /\ merged
    /\ finalContent # generatedContent
    /\ Len(chapters) = 2

----------------------------------------------------------------------------
\* Properties of the plugin

StartsWith(s, prefix) ==
    Len(s) >= Len(prefix) /\ SubSeq(s, 1, Len(prefix)) = prefix

\* the document has a line "- term ::: definition" for the term
HasDefinitionLine(doc, term) ==
    LET prefix == <<"-", SP>> \o term \o <<SP, ":::", SP>>
    IN  \E i \in DOMAIN Split(doc) :
            /\ StartsWith(Split(doc)[i], prefix)
            /\ Trim(SubSeq(Split(doc)[i], Len(prefix) + 1, Len(Split(doc)[i]))) # <<>>

\* the vocabulary terms of the book in the loop
BookTerms == Range(bookVocabularyWords(content[book].chapters))

\* the terms of the book in the loop with a definition line in the document
\* that was read at the start of its iteration
CachedTerms ==
    {t \in BookTerms : fileExists /\ HasDefinitionLine(existingContent, t)}

WritesOf(b) == {i \in DOMAIN ioLog : ioLog[i] = <<"write", b>>}

\* the iteration of book b in the run is over
Done(b) == runs > 0 /\ (pc = "idle" \/ b < book)

\* the content writeBooks has ready at the write: the render, merged with
\* the document of the second read when the file exists
FinalMerged ==
    IF fileExists THEN MergeContent(generatedContent, existingContent)
    ELSE generatedContent

WrittenOnce ==
    \A b \in DOMAIN content :
        /\ Cardinality(WritesOf(b)) = IF Done(b) THEN 1 ELSE 0
        /\ \A i \in WritesOf(b), k \in DOMAIN ioLog : ioLog[k][2] = b => k <= i

OnlyFinalWritten ==
    (vault' # vault /\ edits' = edits) =>
        /\ pc = "write"
        /\ vault' = (fileName :> FinalMerged) @@ vault

\* C9: each book of a run has one write in the log once its iteration is
\* over and none before, no storage call of the book follows its write, and
\* the plugin changes a file only at that write, to the render merged with
\* what the second read returned
C9_OneWritePerBook == [](WrittenOnce) /\ [][OnlyFinalWritten]_vars

\* a second run over two books has ended, every book read twice and written
C9_Witness ==
    /\ pc = "idle"
    /\ runs = 2
    /\ Len(content) = 2
    /\ Len(ioLog) = 8
    /\ WrittenOnce

\* the lines of the section of the chapter: from its heading to the next one
Section(lines, name) ==
    LET own == SelectSeq(Indices(Len(lines)),
                         LAMBDA i : IsHeading(lines[i])
                                    /\ HeadingName(lines[i]) = Trim(name))
        later == IF own = <<>> THEN <<>>
                 ELSE SelectSeq(Indices(Len(lines)),
                                LAMBDA i : i > own[1] /\ IsHeading(lines[i]))
    IN  IF own = <<>> THEN <<>>
        ELSE SubSeq(lines, own[1] + 1,
                    IF later = <<>> THEN Len(lines) ELSE later[1] - 1)

\* the line is the one the template emits for the highlight: the definition
\* line of a term, whatever the definition, or the quote line of a passage
IsHighlightLine(line, h) ==
    IF h.color = Vocab
    THEN StartsWith(line, <<"-", SP>> \o h.text \o <<SP, ":::", SP>>)
    ELSE line = <<">", SP, "Quote", SP, ":", SP>> \o h.text

Occurrences(text, name, h) ==
    Len(SelectSeq(Section(Split(text), name), LAMBDA l : IsHighlightLine(l, h)))

\* in the documents written last and before for book b, every highlight of
\* the source stands once in the section of its chapter
EmittedOnce(b) ==
    \A i \in DOMAIN content[b].chapters :
        \A j \in DOMAIN content[b].chapters[i][2] :
            LET name == content[b].chapters[i][1]
                h == content[b].chapters[i][2][j]
            IN  /\ Occurrences(lastWritten[b].text, name, h) = 1
                /\ b \in DOMAIN prevWritten =>
                      Occurrences(lastWritten[b].text, name, h)
                          <= Occurrences(prevWritten[b].text, name, h)

OwnFile(b) ==
    \A c \in DOMAIN content :
        FileName(content[c].title) = FileName(content[b].title) => c = b

\* the last two writes of book b were made by consecutive runs, the later
\* one reading the document the earlier one wrote
Consecutive(b) ==
    /\ b \in DOMAIN prevWritten
    /\ OwnFile(b)
    /\ lastWritten[b].run = prevWritten[b].run + 1
    /\ lastEditRun < prevWritten[b].run

\* C3: a run over the document written by the run before, with the same
\* source records and no edit in between, writes that same document again
C3_FixedPoint ==
    \A b \in DOMAIN lastWritten :
        Consecutive(b) => lastWritten[b].text = prevWritten[b].text

\* C6: every entry of the definitions map rendered by a run is in the map
\* rendered by the next run over the same source, with the same text
C6_DefinitionsKept ==
    \A b \in DOMAIN lastWritten :
        Consecutive(b) =>
            \A t \in DOMAIN prevWritten[b].definitions :
                /\ t \in DOMAIN lastWritten[b].definitions
                /\ lastWritten[b].definitions[t] = prevWritten[b].definitions[t]

----------------------------------------------------------------------------
\* Properties of getVocabularyDefinitions

\* the request succeeded: the service answered with a text that is not blank
Succeeded(o) == o.kind = "ok" /\ Trim(o.response) # <<>>

\* the position of the last request for the word
LastRequest(w) ==
    CHOOSE i \in DOMAIN wordsNeedingDefinitions :
        /\ wordsNeedingDefinitions[i] = w
        /\ \A j \in DOMAIN wordsNeedingDefinitions :
              wordsNeedingDefinitions[j] = w => j <= i

\* C8: whatever the requests come to and in whatever order, the call does
\* not fail, and the map it returns has one entry per requested word: the
\* trimmed text of the answer to the word's own request if that request
\* succeeded under a configured model, the placeholder "..." otherwise
C8_FailureIsolation ==
    /\ pc # "rejected"
    /\ pc = "details" =>
          /\ DOMAIN definitions = Range(wordsNeedingDefinitions)
          /\ \A w \in Range(wordsNeedingDefinitions) :
                definitions[w] =
                    IF ollamaModel /\ Succeeded(answers[LastRequest(w)])
                    THEN Trim(answers[LastRequest(w)].response)
                    ELSE Placeholder

\* a call for three words has returned under a configured model; a request
\* failed on the network and another succeeded
C8_Witness ==
    /\ pc = "details"
    /\ ollamaModel
    /\ Len(wordsNeedingDefinitions) = 3
    /\ \E i, j \in DOMAIN answers :
          /\ answers[i].kind = "networkError"
          /\ Succeeded(answers[j])
          /\ definitions[wordsNeedingDefinitions[j]] # Placeholder
    /\ \E w \in Range(wordsNeedingDefinitions) : definitions[w] = Placeholder

----------------------------------------------------------------------------
\* Properties of the line-level merge

\* the lines of the chapter's section that show the highlight, in the
\* format of either template
LegacyOccurrences(text, name, h) ==
    Len(SelectSeq(Section(Split(text), name),
                  LAMBDA l : \/ IsHighlightLine(l, h)
                             \/ h.color = Vocab /\ StartsWith(l, CardPrefix(h.text))))

\* C4: after any number of merges of a source into a document that already
\* shows its highlights, no highlight stands twice in its chapter
C4_NoDuplicate ==
    (pc = "legacy" /\ runs > 0) =>
        \A i \in DOMAIN chapters :
            \A j \in DOMAIN chapters[i][2] :
                LegacyOccurrences(vault[<<"T">>], chapters[i][1], chapters[i][2][j]) <= 1

----------------------------------------------------------------------------
\* C11

HasHeadingLine(doc) == \E i \in DOMAIN Split(doc) : IsHeading(Split(doc)[i])

HasMarkerLine(doc) ==
    \E i \in DOMAIN Split(doc) :
        Includes(Split(doc)[i], EndToken) \/ Includes(Split(doc)[i], StartToken)

----------------------------------------------------------------------------
\* C12

\* the vocabulary terms of the book, as collected at lines 99-113
Terms == bookVocabularyWords(chapters)

\* how many of the terms satisfy P
CountTerms(ws, P(_)) == Len(SelectSeq(ws, P))

\* the term as written has three characters or more
LongAsWritten(w) == Len(w) >= 3
\* ... and one of them is in the accent set
AccentedAsWritten(w) == LongAsWritten(w) /\ \E j \in DOMAIN w : w[j] \in AccentChars

\* the term without the white space at its ends has three characters or more
LongTrimmed(w) == Len(Trim(w)) >= 3
\* ... and one of them, or its lower-case form, is in the accent set
AccentedFolded(w) ==
    LongTrimmed(w) /\ \E j \in DOMAIN w : w[j] \in AccentChars \/ ToLowerCase(w[j]) \in AccentChars

\* C12 as stated: "fr" exactly when a term of length >= 3 exists and the
\* terms of length >= 3 holding a character of the accent set are at least
\* 30% of the terms of length >= 3, lengths and characters taken as written
C12_ThresholdAsWritten ==
    pc = "detected" =>
        (detectedLanguage = "fr"
            <=> /\ CountTerms(Terms, LongAsWritten) >= 1
                /\ 10 * CountTerms(Terms, AccentedAsWritten) >= 3 * CountTerms(Terms, LongAsWritten))

\* C12: for a list of at most 50 terms the result is "fr" exactly when a
\* term of trimmed length >= 3 exists and the terms of trimmed length >= 3
\* holding an accent-set character in either case are at least 30% of the
\* terms of trimmed length >= 3, and "en" otherwise; the empty list and a
\* list without such a term give "en"
C12_Threshold ==
    pc = "detected" =>
        /\ detectedLanguage \in {"fr", "en"}
        /\ detectedLanguage = "fr"
            <=> /\ CountTerms(Terms, LongTrimmed) >= 1
                /\ 10 * CountTerms(Terms, AccentedFolded) >= 3 * CountTerms(Terms, LongTrimmed)
        /\ CountTerms(Terms, LongTrimmed) = 0 => detectedLanguage = "en"

\* ten terms of three letters, three of them accented (exactly 30%),
\* detected as French; the short terms of the list did not count
C12_Witness ==
    /\ pc = "detected"
    /\ Len(Terms) = 10
    /\ CountTerms(Terms, LongTrimmed) = 10
    /\ CountTerms(Terms, AccentedFolded) = 3
    /\ detectedLanguage = "fr"

----------------------------------------------------------------------------
\* C17

\* the map extractUserContent returns for the existing document
UserContentMap == extractUserContent(existingContent)

\* the text has a level-2 heading of chapter K
HeadingIn(text, K) ==
    \E i \in DOMAIN Split(text) :
        IsHeading(Split(text)[i]) /\ HeadingName(Split(text)[i]) = K

\* the positions of ls at which the lines of the block stand as a run
RunsOf(ls, blockLines) ==
    {p \in 1..(Len(ls) - Len(blockLines) + 1) :
        SubSeq(ls, p, p + Len(blockLines) - 1) = blockLines}

\* the names of the level-2 headings of the text, in order
HeadingNames(text) ==
    LET hs == SelectSeq(Indices(Len(Split(text))), LAMBDA i : IsHeading(Split(text)[i]))
    IN  [j \in DOMAIN hs |-> HeadingName(Split(text)[hs[j]])]

\* the lines of the text between the heading of chapter K and the heading of
\* the chapter that follows K in the render (or the end): typed text may
\* hold headings of its own, which do not end the region
Region(text, K) ==
    LET names == HeadingNames(generatedContent)
        k == CHOOSE j \in DOMAIN names : names[j] = K
        lines == Split(text)
        own == SelectSeq(Indices(Len(lines)),
                         LAMBDA i : IsHeading(lines[i]) /\ HeadingName(lines[i]) = K)
        later == SelectSeq(Indices(Len(lines)),
                           LAMBDA i : /\ k < Len(names)
                                      /\ i > own[1]
                                      /\ IsHeading(lines[i])
                                      /\ HeadingName(lines[i]) = names[k + 1])
    IN  SubSeq(lines, own[1] + 1, IF later = <<>> THEN Len(lines) ELSE later[1] - 1)

\* in the region of chapter K of the text the block stands exactly once:
\* after the end-marker line of the region and one blank line
EmittedAfterEnd(text, K, block) ==
    LET sec == Region(text, K)
        ends == SelectSeq(Indices(Len(sec)), LAMBDA i : sec[i] = EndLine)
    IN  /\ Len(ends) = 1
        /\ RunsOf(sec, Split(block)) = {ends[1] + 2}
        /\ sec[ends[1] + 1] = <<>>

\* the number of lines of chapter K's section that hold the end word
EndWordLines(text, K) ==
    Len(SelectSeq(Section(Split(text), K), LAMBDA l : Includes(l, EndToken)))

----------------------------------------------------------------------------
\* C18

\* the lines after line e of the text, as one trimmed block
TextAfter(text, e) == Trim(Join(SubSeq(Split(text), e + 1, Len(Split(text)))))

\* the text has no level-2 heading and no start marker, line e is its only
\* line with the end word, and what follows line e is not blank
TrailingOnly(text, e) ==
    /\ ~HasHeadingLine(text)
    /\ \A i \in DOMAIN Split(text) :
          /\ ~Includes(Split(text)[i], StartToken)
          /\ Includes(Split(text)[i], EndToken) <=> i = e
    /\ TextAfter(text, e) # <<>>

\* C18: the typed lines that follow an end-marker line of a document without
\* a level-2 heading are stored, trimmed, under '__trailing__', and the
\* document written ends with a blank line and that block
C18_TrailingKept ==
    merged =>
        \A e \in DOMAIN Split(existingContent) :
            TrailingOnly(existingContent, e)
                => /\ Has(UserContentMap, TrailingKey)
                   /\ UserContentMap[TrailingKey] = TextAfter(existingContent, e)
                   /\ finalContent
                        = generatedContent \o <<NL, NL>> \o TextAfter(existingContent, e)

----------------------------------------------------------------------------
\* C19

\* the keys of the map whose heading is in the render
LiveKeys == {K \in DOMAIN UserContentMap : HeadingIn(generatedContent, K)}

\* the block of K does not stand in the render nor inside the block of a
\* chapter that is still there
OwnText(K) ==
    /\ RunsOf(Split(generatedContent), Split(UserContentMap[K])) = {}
    /\ \A L \in LiveKeys : RunsOf(Split(UserContentMap[L]), Split(UserContentMap[K])) = {}

\* C19: the content written is what the merge gives for the map without the
\* keys whose heading is not in the render, and the block of such a key
\* stands nowhere in it
C19_OrphanDropped ==
    merged =>
        /\ finalContent
             = reinsertUserContent(generatedContent, [K \in LiveKeys |-> UserContentMap[K]])
        /\ \A K \in DOMAIN UserContentMap \ LiveKeys :
              OwnText(K) => RunsOf(Split(finalContent), Split(UserContentMap[K])) = {}

\* the existing document had text typed under the chapters Y and X, the
\* render has chapter X only: the block of X was kept, the one of Y is gone
C19_Witness ==
    /\ merged
    /\ DOMAIN UserContentMap = {<<"X">>, <<"Y">>}
    /\ LiveKeys = {<<"X">>}
    /\ UserContentMap[<<"Y">>] = Join(<< <<"h">>, <<>>, <<"g">> >>)
    /\ OwnText(<<"Y">>)
    /\ RunsOf(Split(finalContent), Split(UserContentMap[<<"X">>])) # {}
    /\ RunsOf(Split(finalContent), Split(UserContentMap[<<"Y">>])) = {}

----------------------------------------------------------------------------
\* C20

\* the line holds one of the two marker words
IsMarker(line) == Includes(line, EndToken) \/ Includes(line, StartToken)

\* the last position before i whose line satisfies P, 0 if there is none
LastBefore(lines, i, P(_)) ==
    LET c == SelectSeq(Indices(i - 1), LAMBDA j : P(lines[j]))
    IN  IF c = <<>> THEN 0 ELSE c[Len(c)]

\* line i is typed text of the section whose heading is at position hd: it
\* is no heading and no marker line, hd is the last heading before it, and
\* the last marker line between the two holds the end word
HumanLine(lines, i, hd) ==
    /\ ~IsHeading(lines[i]) /\ ~IsMarker(lines[i])
    /\ hd > 0
    /\ LastBefore(lines, i, IsHeading) = hd
    /\ LastBefore(lines, i, IsMarker) > hd
    /\ Includes(lines[LastBefore(lines, i, IsMarker)], EndToken)

\* the typed lines of the section whose heading is at position hd, in order
HumanLines(lines, hd) ==
    LET at == SelectSeq(Indices(Len(lines)), LAMBDA i : HumanLine(lines, i, hd))
    IN  [j \in DOMAIN at |-> lines[at[j]]]

\* the last section of chapter K with typed text that is not blank, 0 if none
LastSection(lines, K) ==
    LET secs == SelectSeq(Indices(Len(lines)),
                          LAMBDA hd : /\ IsHeading(lines[hd])
                                      /\ HeadingName(lines[hd]) = K
                                      /\ Trim(Join(HumanLines(lines, hd))) # <<>>)
    IN  IF secs = <<>> THEN 0 ELSE secs[Len(secs)]

\* no line of the block is a level-2 heading or holds a marker word
NoMachineLine(block) ==
    \A i \in DOMAIN Split(block) :
        ~IsHeading(Split(block)[i]) /\ ~IsMarker(Split(block)[i])

\* C20: no block of the map has a level-2 heading line or a line with a
\* marker word, and every block is made of typed lines that follow the end
\* marker of a section of its chapter, each with its text, in their order
C20_BlocksOfHumanLines ==
    merged =>
        \A K \in DOMAIN UserContentMap :
            LET lines == Split(existingContent)
                hd == LastSection(lines, K)
            IN  /\ NoMachineLine(UserContentMap[K])
                /\ hd > 0
                /\ IsSubsequence(Split(UserContentMap[K]), HumanLines(lines, hd))

\* what does hold of the blocks: each is the typed lines of the last such
\* section of its chapter, joined and trimmed as one text
BlocksAreTrimmedHumanLines ==
    merged =>
        \A K \in DOMAIN UserContentMap :
            LET lines == Split(existingContent)
                hd == LastSection(lines, K)
            IN  /\ hd > 0
                /\ UserContentMap[K] = Trim(Join(HumanLines(lines, hd)))

----------------------------------------------------------------------------
\* Properties of the run with failing surroundings

\* how many notices of the kind are in ns
CountIn(ns, kind) == Len(SelectSeq(ns, LAMBDA n : n = kind))

\* the run under way, or the last one, has written book b
WrittenInRun(b) == b \in DOMAIN lastWritten /\ lastWritten[b].run = runs

\* the step shows the notice of the kind for a run
Reports(kind) ==
    /\ CountIn(notices', kind) = 1
    /\ runs' # runs \/ CountIn(notices, kind) = 0

\* a run under way has shown neither the success nor the failure notice; a
\* run that is over has shown exactly one of the two, once; the success
\* notice means every book of the library was written in the run
Outcome ==
    /\ CountIn(notices, "success") + CountIn(notices, "failure") <= 1
    /\ pc # "idle" => CountIn(notices, "success") + CountIn(notices, "failure") = 0
    /\ (pc = "idle" /\ runs > 0)
          => CountIn(notices, "success") + CountIn(notices, "failure") = 1
    /\ CountIn(notices, "success") = 1 => \A b \in DOMAIN content : WrittenInRun(b)

\* the step that shows the success notice closes the modal, the step that
\* shows the failure notice leaves it open
OutcomeStep ==
    /\ Reports("success") => ~modalOpen'
    /\ Reports("failure") => modalOpen /\ modalOpen'

\* C13: every run ends with the success notice, all books written and the
\* modal closed, or with one failure notice and the modal left open, never
\* with both and never with two failure notices
C13_OneOutcome == [](Outcome) /\ [][OutcomeStep]_vars

\* the second run wrote the first book and failed at the write of the
\* second, after a first run that had written all three
C13_Witness ==
    /\ pc = "idle"
    /\ runs = 2
    /\ failed = <<"write", 2>>
    /\ CountIn(notices, "failure") = 1
    /\ CountIn(notices, "success") = 0
    /\ modalOpen
    /\ WrittenInRun(1)
    /\ 3 \in DOMAIN lastWritten /\ lastWritten[3].run = 1

----------------------------------------------------------------------------
\* C14

\* the step is a run of the listener with no file loaded
TriggeredUnloaded == ~fileBuffer /\ runs' = runs + 1

\* the step shows one failure notice and no success notice, leaves the
\* files alone, makes no storage call and no request, and opens no database
FailsAsAWhole ==
    /\ CountIn(notices', "failure") = 1
    /\ CountIn(notices', "success") = 0
    /\ pc' = "idle"
    /\ vault' = vault
    /\ ioLog' = <<>>
    /\ requested' = {} /\ pending' = pending /\ results' = results
    /\ ~database'
    /\ lastWritten' = lastWritten

\* C14: an extraction triggered while no file is loaded fails as a whole:
\* one failure notice, and no database access, existence check, read,
\* write or definition request
C14_NoFileNoWork == [][TriggeredUnloaded => FailsAsAWhole]_vars

\* the listener has run with no file loaded, over a vault that holds a
\* document, and the run is over with its one failure notice
C14_Witness ==
    /\ failed = <<"fileBuffer", 0>>
    /\ runs = 1
    /\ ~fileBuffer
    /\ vault # EmptyMap
    /\ pc = "idle"
    /\ notices = <<"extracting", "failure">>
    /\ ioLog = <<>> /\ ~database

----------------------------------------------------------------------------
\* C15

\* a storage call of the run has thrown
StorageFailed == failed # <<>> /\ failed[1] \in {"exists", "read", "write"}

\* the file of book b holds what the last write of the run to that file
\* name put there: the write of b, or of a later book before k with the
\* same file name
KeepsWritten(b, k) ==
    LET same == {c \in b..(k - 1) : FileName(content[c].title) = FileName(content[b].title)}
        last == CHOOSE c \in same : \A d \in same : d <= c
    IN  /\ WrittenInRun(b)
        /\ FileName(content[b].title) \in DOMAIN vault
        /\ vault[FileName(content[b].title)] = lastWritten[last].text

\* after a storage call has thrown at book k the run is over: the call is
\* the last of the log, no call of the log is for a later book, book k has
\* at most one write in it, the failure notice was shown once and the
\* success notice not, and no later book was written
FailurePropagates ==
    StorageFailed =>
        LET k == failed[2]
        IN  /\ pc = "idle"
            /\ ioLog # <<>> /\ ioLog[Len(ioLog)] = failed
            /\ \A i \in DOMAIN ioLog : ioLog[i][2] <= k
            /\ Cardinality(WritesOf(k)) = IF failed[1] = "write" THEN 1 ELSE 0
            /\ CountIn(notices, "failure") = 1
            /\ CountIn(notices, "success") = 0
            /\ \A b \in (k + 1)..Len(content) : ~WrittenInRun(b)

StorageFailureIsFatalOtherFiles ==
    /\ FailurePropagates
    /\ StorageFailed =>
          \A b \in 1..(failed[2] - 1) :
              FileName(content[b].title) # FileName(content[failed[2]].title)
                  => KeepsWritten(b, failed[2])

----------------------------------------------------------------------------
\* C16

\* the iteration of book b in the current run is over
Processed(b) ==
    /\ runs > 0
    /\ b \in 1..Len(content)
    /\ IF pc = "idle" THEN failed = <<>> \/ b < failed[2] ELSE b < book

\* the step in which the renderer gives null for the current book goes on
\* to the merge or the write of that book and shows no notice
NullRenderStep ==
    nullRendered' # nullRendered /\ nullRendered' # {}
        => /\ nullRendered' = nullRendered \cup {book}
           /\ book' = book
           /\ pc' \in {"reread", "write"}
           /\ generatedContent' = ErrorSentinel
           /\ notices' = notices

\* a book whose render was null has, once its iteration is over, a write
\* of this run whose content is the sentinel alone
SentinelWritten ==
    \A b \in nullRendered :
        Processed(b) => /\ WrittenInRun(b)
                        /\ lastWritten[b].text = ErrorSentinel

\* a run in which a render was null and no call has thrown ends with every
\* book written and the success notice
NullRenderGoesOn ==
    (nullRendered # {} /\ pc = "idle" /\ failed = <<>>)
        => /\ \A b \in 1..Len(content) : WrittenInRun(b)
           /\ CountIn(notices, "success") = 1
           /\ CountIn(notices, "failure") = 0

\* C16: when the renderer gives the error sentinel for a book, the document
\* of that book is written with the sentinel as its body, the run is not
\* aborted, and every remaining book of the run is processed and written
C16_SentinelIsWritten ==
    /\ [](SentinelWritten /\ NullRenderGoesOn)
    /\ [][NullRenderStep]_vars

\* a finished run of three books in which the render of the first book, a
\* book with an existing document, was null, and the two other books were
\* written with their own render
C16_Witness ==
    /\ pc = "idle" /\ failed = <<>> /\ runs = 1
    /\ Len(content) = 3
    /\ nullRendered = {1}
    /\ \A b \in 1..3 : WrittenInRun(b)
    /\ lastWritten[1].text = ErrorSentinel
    /\ vault[FileName(content[1].title)] = ErrorSentinel
    /\ lastWritten[2].text # ErrorSentinel
    /\ lastWritten[3].text # ErrorSentinel

----------------------------------------------------------------------------
\* Properties of the listener run more than once at a time

\* the invocations that have a book between its existence check and the
\* return of its write
InLoop == {r \in Invocations : pc[r] \in {"exists", "read", "fetch", "details", "reread", "write"}}

\* the storage calls that have been made and have not returned
StorageCallsInFlight == {r \in Invocations : pc[r] \in {"exists", "read", "reread", "write"}}

\* C21: at most one book is between its existence check and its write, and
\* no two storage calls are in flight together, also when Extract is clicked
\* again before a run has finished
C21_OneBookAtATime ==
    /\ Cardinality(InLoop) <= 1
    /\ Cardinality(StorageCallsInFlight) <= 1

\* the storage calls of invocation r, in the order of their return
CallsOf(r) == SelectSeq(ioLog, LAMBDA e : e[3] = r)

\* what does hold: within one invocation the books are processed one after
\* the other, the existence check of a book being the call that follows the
\* write of the book before, so with one click the statement is true
OneClickIsSequential ==
    /\ runs <= 1 => C21_OneBookAtATime
    /\ \A r \in Invocations :
          LET log == CallsOf(r)
          IN  /\ log # <<>> => log[1] = <<"exists", 1, r>>
              /\ \A i \in 1..(Len(log) - 1) :
                    IF log[i][1] = "write"
                    THEN log[i + 1] = <<"exists", log[i][2] + 1, r>>
                    ELSE log[i + 1][2] = log[i][2] /\ log[i + 1][1] \in {"read", "write"}

----------------------------------------------------------------------------
\* C22

\* every request of the book has been sent: each missing term has its
\* request, settled or not
AllIssued ==
    /\ requested = Range(wordsNeedingDefinitions)
    /\ pending \cup DOMAIN results = DOMAIN wordsNeedingDefinitions
    /\ pending \cap DOMAIN results = {}

\* the book in the loop has asked the service for definitions
Fetched == ollamaModel /\ wordsNeedingDefinitions # <<>>

\* the render, the reinsertion and the write of the book: a step that gives
\* generatedContent or finalContent its value, or writes the file
RenderOrWrite ==
    \/ generatedContent' # generatedContent
    \/ finalContent' # finalContent
    \/ ioLog' # ioLog /\ ioLog' # <<>> /\ ioLog'[Len(ioLog')][1] = "write"

\* C22: the requests of all missing terms of a book are out before a
\* response is awaited, and the render, the reinsertion and the write of the
\* book come only when none of its requests is outstanding
C22_AwaitAll ==
    /\ [](pc = "fetch" => AllIssued)
    /\ [](pc \in {"details", "reread", "write"} =>
            /\ pending = {}
            /\ Fetched => DOMAIN results = DOMAIN wordsNeedingDefinitions)
    /\ [][RenderOrWrite => pending = {} /\ pc # "fetch"]_vars

\* a book with two missing terms is about to be written, both requests
\* having settled, one with a definition and one with a failure
C22_Witness ==
    /\ pc = "write"
    /\ Len(wordsNeedingDefinitions) = 2
    /\ DOMAIN results = {1, 2}
    /\ pending = {}
    /\ answers[1].kind = "networkError" /\ answers[2].kind = "ok"
    /\ definitions[wordsNeedingDefinitions[1]] = Placeholder
    /\ definitions[wordsNeedingDefinitions[2]] = <<"d">>

----------------------------------------------------------------------------
\* C23

\* the request of index i settles in this step
Settles(i) == Respond /\ pending' = pending \ {i}

\* the calls of the kind made for book b in the run
CallsFor(op, b) == {i \in DOMAIN ioLog : ioLog[i] = <<op, b>>}

\* a run that is over has shown its notice
Terminal ==
    /\ pc = "idle"
    /\ CountIn(notices, "success") + CountIn(notices, "failure") = 1

\* no book is gone through twice in a run, and a run that has ended with
\* the success notice has gone through every book once
EachBookOnce ==
    /\ \A b \in DOMAIN content :
          /\ Cardinality(CallsFor("exists", b)) <= 1
          /\ Cardinality(CallsFor("write", b)) <= 1
    /\ (Terminal /\ CountIn(notices, "success") = 1) =>
          \A b \in DOMAIN content :
              /\ Cardinality(CallsFor("exists", b)) = 1
              /\ Cardinality(CallsFor("write", b)) = 1

\* in every position of a run the call awaited can come back: the step of
\* the model for its return is possible
CallsCanReturn ==
    /\ pc \in Positions
    /\ pc \in {"read", "reread"} => fileName \in DOMAIN vault
    /\ pc = "fetch" => pending # {} \/ \A i \in DOMAIN results : results[i].state = "fulfilled"

\* C23: with every awaited call returning, a run that has started comes to
\* its notice, having gone through each book once; while the requests of a
\* book are out, each of them can settle whatever the others do
C23_RunTerminates ==
    /\ (pc # "idle") ~> Terminal
    /\ [](EachBookOnce)
    /\ [](pc = "fetch" => \A i \in pending : ENABLED Settles(i))

\* the second request of a book has settled while the first is still out
C23_Witness ==
    /\ pc = "fetch"
    /\ Len(wordsNeedingDefinitions) = 2
    /\ pending = {1}
    /\ DOMAIN results = {2}

----------------------------------------------------------------------------
\* C24

\* the vocabulary terms of book b
WordsOf(b) == bookVocabularyWords(content[b].chapters)

\* the language of a list of at most 50 terms by the rule of detectLanguage
\* (see C12): French when at least 30% of the terms of three characters or
\* more hold an accented letter
LanguageOfTerms(ws) ==
    IF /\ CountTerms(ws, LongTrimmed) >= 1
       /\ 10 * CountTerms(ws, AccentedFolded) >= 3 * CountTerms(ws, LongTrimmed)
    THEN "fr" ELSE "en"

\* the language a document was rendered with: the deck name of its front
\* matter
LanguageIn(text) == IF "Vocabulaire" \in Range(text) THEN "fr" ELSE "en"

\* every term of the book in the loop had its definition in the document
AllCached ==
    /\ fileExists
    /\ WordsOf(book) # <<>>
    /\ wordsNeedingDefinitions = <<>>

\* C24: the language given to the fetch and to the renderer is the language
\* of all the vocabulary terms of the book, so every document of a book is
\* written with that language, by a run that finds every term cached as by
\* the run that found none
C24_LanguageFromAllTerms ==
    /\ pc \in {"fetch", "details", "reread", "write"}
          => detectedLanguage = LanguageOfTerms(WordsOf(book))
    /\ \A b \in DOMAIN lastWritten :
          /\ LanguageIn(lastWritten[b].text) = LanguageOfTerms(WordsOf(b))
          /\ b \in DOMAIN prevWritten
                => LanguageIn(lastWritten[b].text) = LanguageIn(prevWritten[b].text)

\* the second run over a French book of two terms finds both cached and is
\* about to write the document in French, as the first run, which had
\* fetched both, did
C24_Witness ==
    /\ pc = "write" /\ book = 1 /\ runs = 2
    /\ ollamaModel
    /\ AllCached
    /\ Len(WordsOf(1)) = 2
    /\ detectedLanguage = "fr"
    /\ LanguageIn(finalContent) = "fr"
    /\ 1 \in DOMAIN lastWritten /\ lastWritten[1].run = 1
    /\ LanguageIn(lastWritten[1].text) = "fr"

----------------------------------------------------------------------------
\* C25

\* the terms book b has no definition for in its own document, in the vault
\* as it is before the run
SoloNeeding(b) ==
    LET file == FileName(content[b].title)
    IN  SelectSeq2(WordsOf(b),
                   IF file \in DOMAIN BookVault
                   THEN parseExistingDefinitions(BookVault[file], EmptyMap)
                   ELSE EmptyMap)

\* the document a run over book b alone writes for it, the service doing
\* ans[i] with the request of the i-th missing term
SoloDocument(b, ans) ==
    LET file == FileName(content[b].title)
        existing == IF file \in DOMAIN BookVault
                    THEN parseExistingDefinitions(BookVault[file], EmptyMap)
                    ELSE EmptyMap
        needing == SoloNeeding(b)
        language == IF Len(WordsOf(b)) > 0 THEN detectLanguage(WordsOf(b)) ELSE "en"
        defs == IF ollamaModel /\ Len(needing) > 0
                THEN SetAll(EmptyMap, needing,
                            [i \in DOMAIN needing |->
                                getVocabularyDefinition(ollamaModel, ans[i]).value], 1)
                     @@ existing
                ELSE existing
        rendered == applyTemplateTransformations(content[b].chapters, defs, language)
    IN  IF file \in DOMAIN BookVault THEN MergeContent(rendered, BookVault[file])
        ELSE rendered

\* the same, for whatever the service may do
SoloDocuments(b) ==
    {SoloDocument(b, ans) : ans \in [DOMAIN SoloNeeding(b) -> RunOutcomes]}

\* the first run, with nothing typed since the vault was set up
FirstRun == runs = 1 /\ edits = 0

\* C25: in a run over two books with distinct titles, the document written
\* for a book is one that the run over that book alone writes: nothing of
\* the other book is in it and nothing of its own is missing
C25_BookScoped ==
    FirstRun => \A b \in DOMAIN lastWritten : lastWritten[b].text \in SoloDocuments(b)

\* the book whose write has just returned, 0 if there is none
JustWritten ==
    IF pc = "idle" /\ runs > 0 THEN Len(content)
    ELSE IF pc = "exists" THEN book - 1
    ELSE 0

\* no book before b in the library has the file name of b
OwnFileName(b) ==
    \A c \in 1..(b - 1) : FileName(content[c].title) # FileName(content[b].title)

\* what does hold: a book whose file name is not the one of an earlier book
\* of the run gets the document of the run over that book alone, the
\* service doing the same with each request
BookScopedOwnFile ==
    (FirstRun /\ JustWritten > 0 /\ OwnFileName(JustWritten))
        => lastWritten[JustWritten].text = SoloDocument(JustWritten, answers)

----------------------------------------------------------------------------
\* C26

\* the line is of the form "- <term> ::: <definition>": the pattern matches
\* the line taken alone
DefinitionLine(line) == MatchSplits(line, 1) # {}

RECURSIVE LineByLine(_, _)
\* the map of the definition lines of a document, one entry per line, a
\* later line for a term replacing an earlier one; every other line skipped
LineByLine(lines, defs) ==
    IF lines = <<>> THEN defs
    ELSE LineByLine(Tail(lines),
                    IF DefinitionLine(Head(lines))
                    THEN parseExistingDefinitions(Head(lines), defs)
                    ELSE defs)

\* C26: the map is the one built from the definition lines of the document,
\* one line at a time: no entry comes from text of more than one line, the
\* other lines are skipped, and the empty document gives the empty map
C26_OneEntryPerLine ==
    pc = "parsed" =>
        /\ existingDefinitions = LineByLine(Split(existingContent), EmptyMap)
        /\ existingContent = <<>> => existingDefinitions = EmptyMap

\* every line that starts with a hyphen, and every line that starts with the
\* separator or ends with it, is a definition line or holds nothing else
NoBrokenLine(lines) ==
    \A i \in DOMAIN lines :
        \/ DefinitionLine(lines[i])
        \/ lines[i] = <<>>
        \/ /\ lines[i][1] \notin {"-", ":::"}
           /\ lines[i][Len(lines[i])] # ":::"

\* what does hold: the same for the documents without a broken definition
\* line, and the empty map for the empty document
OneEntryPerWholeLine ==
    pc = "parsed" =>
        /\ NoBrokenLine(Split(existingContent))
              => existingDefinitions = LineByLine(Split(existingContent), EmptyMap)
        /\ existingContent = <<>> => existingDefinitions = EmptyMap

----------------------------------------------------------------------------
\* C27

\* C27: the lines of the existing document are all in the merged document,
\* unchanged and in the same order: the line-level merge only inserts lines
C27_StrictlyAdditive ==
    merged => IsSubsequence(Split(existingContent), Split(finalContent))

\* the merge has put the new quote of chapter X between the lines of the
\* document, before the heading of chapter Y, and has added chapter Y's card
C27_Witness ==
    /\ merged
    /\ existingContent = Join(<< <<"#", "#", SP, "Highlights">>, <<"#", "#", SP, "X">>,
                                 <<"h">>, <<"#", "#", SP, "Y">> >>)
    /\ Len(chapters) = 2
    /\ Split(finalContent)[4] = <<">", SP, "Quote", SP, ":", SP, "a">>
    /\ Split(finalContent)[6] = <<"#", "#", SP, "Y">>
    /\ Len(Split(finalContent)) = 8

----------------------------------------------------------------------------
\* C28

\* the line of the template for a term without a definition
PlaceholderLine(term) == <<"-", SP>> \o term \o <<SP, ":::", SP>> \o Placeholder

HasLine(doc, line) == \E i \in DOMAIN Split(doc) : Split(doc)[i] = line

\* the run never waits for the service and nothing was sent to it
NothingSent ==
    /\ pc # "fetch"
    /\ pending = {} /\ requested = {}
    /\ results = EmptyMap /\ answers = EmptyMap
    /\ CountIn(notices, "fetching") = 0

\* the run has not failed
NoErrorReported == pc # "rejected" /\ CountIn(notices, "failure") = 0

\* the render of the book in the loop, and what is about to be written for
\* it, have the placeholder line for every term of the book that has no
\* definition line in the document read at the start of the iteration
PlaceholdersRendered ==
    /\ pc \in {"reread", "write"} =>
          \A t \in BookTerms \ CachedTerms : HasLine(generatedContent, PlaceholderLine(t))
    /\ pc = "write" =>
          \A t \in BookTerms \ CachedTerms : HasLine(finalContent, PlaceholderLine(t))

\* C28: with no model configured nothing is ever sent to the service, no
\* run reports a failure, and every vocabulary term without a cached
\* definition is rendered with the placeholder "..."
C28_NoModelNoRequest ==
    ~ollamaModel => NothingSent /\ NoErrorReported /\ PlaceholdersRendered

\* with no model, a run over a book of two terms and no document is about
\* to write both terms with the placeholder
C28_Witness ==
    /\ ~ollamaModel
    /\ pc = "write"
    /\ ~fileExists
    /\ Cardinality(BookTerms) = 2
    /\ \A t \in BookTerms : HasLine(finalContent, PlaceholderLine(t))

----------------------------------------------------------------------------
\* C29

\* the lines "- term ::: text" of the document for the term, text not blank
DefinitionLinesOf(doc, term) ==
    LET prefix == <<"-", SP>> \o term \o <<SP, ":::", SP>>
    IN  {l \in Range(Split(doc)) :
            /\ StartsWith(l, prefix)
            /\ Trim(SubSeq(l, Len(prefix) + 1, Len(l))) # <<>>}

\* the terms of the book in the loop that have a definition line in the
\* document the iteration reads are not sent to the service
WrittenNotRequested ==
    (fileExists /\ pc \in {"fetch", "details", "reread", "write"}) =>
        \A t \in BookTerms :
            DefinitionLinesOf(existingContent, t) # {} => t \notin requested

\* what is about to be written has every definition line that the document
\* read has for a term of the book, with the same text
WrittenLineKept ==
    (fileExists /\ pc = "write") =>
        \A t \in BookTerms :
            \A l \in DefinitionLinesOf(existingContent, t) : HasLine(finalContent, l)

\* C29: a term whose definition line, placeholder included, is in the
\* document a run reads is not requested by that run, and the run writes
\* the line again with the same text
C29_WrittenLineIsCached == WrittenNotRequested /\ WrittenLineKept

\* under a configured model the first run got no answer for a term and
\* wrote the placeholder; the second run has read that line, has sent
\* nothing and is about to write the line again
PlaceholderReadBack ==
    /\ ollamaModel
    /\ runs = 2
    /\ pc = "write"
    /\ fileExists
    /\ BookTerms # {}
    /\ \A t \in BookTerms : PlaceholderLine(t) \in DefinitionLinesOf(existingContent, t)
    /\ requested = {}
    /\ \A t \in BookTerms : HasLine(finalContent, PlaceholderLine(t))

----------------------------------------------------------------------------
\* C30

\* every request of the book in the loop has settled
AllResolved ==
    /\ pending = {}
    /\ DOMAIN results = (IF requested = {} THEN {} ELSE DOMAIN wordsNeedingDefinitions)
    /\ \A i \in DOMAIN results : results[i].state = "fulfilled"

\* the reads of the file of the book in the loop logged by the run
ReadsOf(b) == {i \in DOMAIN ioLog : ioLog[i] = <<"read", b>>}

\* while the requests are out the document has been read once; the second
\* read is awaited and returns only when every request has settled, and it
\* is the last storage call before the write
SecondReadAfterFetch ==
    /\ (pc = "fetch" /\ fileExists) => Cardinality(ReadsOf(book)) = 1
    /\ pc \in {"reread", "write"} => AllResolved
    /\ (pc = "reread") => fileExists /\ Cardinality(ReadsOf(book)) = 1
    /\ (pc = "write" /\ fileExists) =>
          /\ Cardinality(ReadsOf(book)) = 2
          /\ ioLog[Len(ioLog)] = <<"read", book>>

\* requests were sent for the book, and since the first read of the
\* iteration the block was typed after the j-th end-marker line of the
\* document
TypedSinceFirstRead(j, block) ==
    /\ requested # {}
    /\ NthEndLine(Split(existingContent), j, 1) > 0
    /\ vault[fileName] =
          Join(InsertAfterEnds(Split(existingContent),
                               [i \in 1..j |-> IF i = j THEN block ELSE << >>], 1))

\* the chapter the line at position p stands in: the name in the last
\* level-2 heading above it
ChapterOfLine(lines, p) ==
    LET hs == SelectSeq(Indices(Len(lines)), LAMBDA i : i < p /\ IsHeading(lines[i]))
    IN  IF hs = <<>> THEN <<>> ELSE HeadingName(lines[hs[Len(hs)]])

\* the chapter of the j-th end-marker line of the document
ChapterOfEnd(doc, j) == ChapterOfLine(Split(doc), NthEndLine(Split(doc), j, 1))

\* the block, trimmed, stands after one blank line below an end-marker line
\* of chapter K of the text
BlockBelowEnd(text, K, block) ==
    LET lines == Split(text)
        H == Split(Trim(Join(block)))
    IN  \E p \in DOMAIN lines :
            /\ lines[p] = EndLine
            /\ ChapterOfLine(lines, p) = K
            /\ LinesAfter(lines, p, Len(H) + 1) = << <<>> >> \o H

\* the typed lines of the block are lines of the text, in their order, up
\* to the white space at their ends
BlockPresent(text, block) ==
    LET typed == SelectSeq(block, LAMBDA l : Trim(l) # <<>>)
        lines == Split(text)
    IN  IsSubsequence([i \in DOMAIN typed |-> Trim(typed[i])],
                      [i \in DOMAIN lines |-> Trim(lines[i])])

\* the second read returns: what was typed since the first read is in the
\* text handed to the write
SecondReadStepAnyChapter ==
    (pc = "reread" /\ pc' = "write") =>
        \A j \in 1..MaxChapters, block \in HumanBlocks \ {<< >>} :
            TypedSinceFirstRead(j, block) => BlockPresent(finalContent', block)

\* the second read returns: what was typed since the first read below the
\* end marker of a chapter that the book still has is in the text handed to
\* the write, and stands trimmed below the end marker of that chapter when
\* no text of the book holds the end-marker word
SecondReadStep ==
    (pc = "reread" /\ pc' = "write") =>
        \A j \in 1..MaxChapters, block \in HumanBlocks \ {<< >>} :
            (TypedSinceFirstRead(j, block)
                /\ HeadingIn(generatedContent, ChapterOfEnd(existingContent, j)))
            => /\ BlockPresent(finalContent', block)
               /\ MarkerFree(content[book].chapters)
                     => BlockBelowEnd(finalContent', ChapterOfEnd(existingContent, j), block)

\* the write stores the text that was ready when the second read returned
WriteStep ==
    (pc = "write" /\ pc' # "write") =>
        /\ finalContent' = finalContent
        /\ vault'[fileName] = finalContent

\* C30 as claimed: the user content of an existing document is taken from
\* a second read that returns after every request of the book has settled
\* and right before the write; a block typed below an end marker after the
\* first read, while the requests were out, is in the document written
C30_SecondReadSeesAnyEdit ==
    [](SecondReadAfterFetch) /\ [][SecondReadStepAnyChapter]_vars /\ [][WriteStep]_vars

\* C30 amended: the same, for a block typed below the end marker of a
\* chapter that the book still has
C30_SecondReadSeesEdits ==
    [](SecondReadAfterFetch) /\ [][SecondReadStep]_vars /\ [][WriteStep]_vars

\* requests were sent for a book with a document of its own, a block of
\* two typed lines was added to the document during the run, the second
\* read has returned the document with the block, and the text about to be
\* written has the block
C30_Witness ==
    /\ pc = "write"
    /\ fileExists
    /\ OwnFile(book)
    /\ requested # {}
    /\ edits = 1 /\ lastEditRun = runs
    /\ vault[fileName] = existingContent
    /\ \E j \in 1..MaxChapters :
          LET block == << <<>>, <<"h">>, <<>>, <<"g">> >>
              p == NthEndLine(Split(existingContent), j, 1)
          IN  /\ p > 0
              /\ LinesAfter(Split(existingContent), p, Len(block)) = block
              /\ BlockBelowEnd(finalContent, ChapterOfEnd(existingContent, j), block)

====
